---- MODULE Spec2Model ----
(***************************************************************************)
(* Model of the RegistryCacheConfig validation webhook of                  *)
(* kyma-project/registry-cache: the Validator (Do / DoOnUpdate and its     *)
(* checks), the collaborators it consults, and the admission handler.      *)
(*                                                                         *)
(* Representation.  A Go string is a sequence of one-character strings, a  *)
(* Go pointer is a sequence of length 0 (nil) or 1, a field path is the    *)
(* sequence of its dot-separated segments, a field.ErrorList is a sequence *)
(* of records [Type, Field, BadValue, Detail].                             *)
(***************************************************************************)
EXTENDS Integers, Sequences, FiniteSets, TLC

VARIABLES
    v,        \* the Validator value of the request being served: <<>> or <<[secrets, existingConfigs, dns]>>
    call,     \* the finished call of that Validator: <<>> or <<[op, newConfig, oldConfig, errs, asked]>>
    cluster,  \* the RegistryCacheConfig objects the API server stores, in list order
    response, \* the last admission response: <<>> or <<[op, obj, before, allowed, errs]>>
              \* (CREATE and UPDATE: also what the client did; DELETE: also the handler's warnings)
    objects,      \* the RegistryCache objects the API server stores, by name: <<>> or <<object>>
    webhookReady, \* whether the reconciler's healthz.Checker passes now
    events,       \* the events the reconciler's recorder has emitted about the stored objects
    reconcile,    \* the Reconcile call in flight: <<>> or <<[name, r, observed, result, err]>>
    frames        \* the Do / DoOnUpdate calls running on goroutines: per goroutine <<>> or <<frame>>

controllerVars == <<objects, webhookReady, events, reconcile>>

vars == <<v, call, cluster, response, controllerVars, frames>>

----------------------------------------------------------------------------
(* Bounds *)

MaxConfigs == 2     \* longest list of existing configurations handed to a Validator
MaxSecrets == 1     \* longest list of secrets handed to a Validator
MaxStored == 2      \* most RegistryCacheConfig objects the cluster stores
MaxLatency == 3     \* longest time, in seconds, a resolver takes to answer

----------------------------------------------------------------------------
(* Strings and pointers *)

Nil == <<>>
Ptr(x) == <<x>>

Letters == {"a", "b", "h", "t", "p", "s", "x"}
Digits == {"0", "1", "2", "3", "4", "5", "6", "7", "8", "9"}

DigitVal(c) == CASE c = "0" -> 0 [] c = "1" -> 1 [] c = "2" -> 2 [] c = "3" -> 3
                 [] c = "4" -> 4 [] c = "5" -> 5 [] c = "6" -> 6 [] c = "7" -> 7
                 [] c = "8" -> 8 [] c = "9" -> 9

\* strings.Index(s, c): first position of the character c in s, 0 when absent
IndexOf(s, c) == IF \E i \in 1..Len(s) : s[i] = c
                 THEN CHOOSE i \in 1..Len(s) : s[i] = c /\ \A j \in 1..(i-1) : s[j] # c
                 ELSE 0

\* strings.LastIndex(s, c): last position of the character c in s, 0 when absent
LastIndexOf(s, c) == IF \E i \in 1..Len(s) : s[i] = c
                     THEN CHOOSE i \in 1..Len(s) : s[i] = c /\ \A j \in (i+1)..Len(s) : s[j] # c
                     ELSE 0

\* strings.HasPrefix
HasPrefix(s, p) == Len(s) >= Len(p) /\ SubSeq(s, 1, Len(p)) = p

Tail2(s, i) == SubSeq(s, i, Len(s))

AllDigits(s) == \A i \in 1..Len(s) : s[i] \in Digits

RECURSIVE Atoi(_)
Atoi(s) == IF s = <<>> THEN 0 ELSE 10 * Atoi(SubSeq(s, 1, Len(s) - 1)) + DigitVal(s[Len(s)])

----------------------------------------------------------------------------
(* net/url as used by validateRemoteURLResolvability: url.Parse followed by *)
(* URL.Hostname, over strings of letters, digits, '.', ':' and '/'.         *)

\* getScheme: the position of the ':' that ends a scheme, 0 when the string
\* has no scheme, -1 when it starts with ':' (error "missing protocol scheme")
RECURSIVE getSchemeFrom(_, _)
getSchemeFrom(s, i) ==
    IF i > Len(s) THEN 0
    ELSE IF s[i] \in Letters THEN getSchemeFrom(s, i + 1)
    ELSE IF s[i] \in (Digits \cup {"."}) THEN (IF i = 1 THEN 0 ELSE getSchemeFrom(s, i + 1))
    ELSE IF s[i] = ":" THEN (IF i = 1 THEN -1 ELSE i)
    ELSE 0

getScheme(s) == getSchemeFrom(s, 1)

\* validOptionalPort: "" or ':' followed by digits only
validOptionalPort(port) ==
    port = <<>> \/ (port[1] = ":" /\ AllDigits(Tail2(port, 2)))

\* parseHost without brackets: a ':' must be followed by a valid port
parseHostOk(host) ==
    LET i == LastIndexOf(host, ":")
    IN  i = 0 \/ validOptionalPort(Tail2(host, i))

\* url.Parse: [ok |-> FALSE] on error, else [ok |-> TRUE, Scheme, Host]
urlParse(rawURL) ==
    LET i      == getScheme(rawURL)
        scheme == IF i > 0 THEN SubSeq(rawURL, 1, i - 1) ELSE <<>>
        rest   == IF i > 0 THEN Tail2(rawURL, i + 1) ELSE rawURL
        seg    == IF IndexOf(rest, "/") = 0 THEN rest ELSE SubSeq(rest, 1, IndexOf(rest, "/") - 1)
        auth0  == Tail2(rest, 3)
        auth   == IF IndexOf(auth0, "/") = 0 THEN auth0 ELSE SubSeq(auth0, 1, IndexOf(auth0, "/") - 1)
    IN  IF i = -1 THEN [ok |-> FALSE]
        ELSE IF ~HasPrefix(rest, <<"/">>) /\ scheme # <<>>
             THEN [ok |-> TRUE, Scheme |-> scheme, Host |-> <<>>]      \* opaque URL
        ELSE IF ~HasPrefix(rest, <<"/">>) /\ IndexOf(seg, ":") # 0
             THEN [ok |-> FALSE]                                       \* colon in first path segment
        ELSE IF HasPrefix(rest, <<"/", "/">>) /\ (scheme # <<>> \/ ~HasPrefix(rest, <<"/", "/", "/">>))
             THEN IF parseHostOk(auth)
                  THEN [ok |-> TRUE, Scheme |-> scheme, Host |-> auth]
                  ELSE [ok |-> FALSE]                                  \* invalid port after host
        ELSE [ok |-> TRUE, Scheme |-> scheme, Host |-> <<>>]

\* URL.Hostname: Host without a valid port
Hostname(host) ==
    LET i == LastIndexOf(host, ":")
    IN  IF i # 0 /\ validOptionalPort(Tail2(host, i)) THEN SubSeq(host, 1, i - 1) ELSE host

----------------------------------------------------------------------------
(* field.Error and field.Path *)

Required(path, detail) == [Type |-> "Required", Field |-> path, BadValue |-> <<>>, Detail |-> detail]
Invalid(path, value, detail) == [Type |-> "Invalid", Field |-> path, BadValue |-> value, Detail |-> detail]
Duplicate(path, value) == [Type |-> "Duplicate", Field |-> path, BadValue |-> value, Detail |-> ""]

SpecPath == <<"spec">>
Child(path, name) == Append(path, name)

----------------------------------------------------------------------------
(* The external domain-rule checker (gardener-extension-registry-cache,     *)
(* package validation), modelled from its documented rule set.              *)

MinPort == 1
MaxPort == 65535

DetailPort == "valid port must be in the range [1, 65535]"
DetailScheme == "url must start with 'http://' or 'https://'"
DetailSize == "must be greater than 0"
DetailStorageClass == "a lowercase RFC 1123 subdomain must consist of lower case alphanumeric characters"
DetailTTL == "ttl must be a non-negative duration"
DetailSubdomain == "subdomain must consist of lower case alphanumeric characters"
DetailImmutable == "field is immutable"
DetailGC == "garbage collection cannot be enabled (ttl > 0) once it is disabled (ttl = 0)"
DetailTwoEntries == "referenced secret should have only two data entries"
DetailNoUsername == "missing \"username\" data entry in referenced secret"
DetailNoPassword == "missing \"password\" data entry in referenced secret"
DetailMutable == "referenced secret should be immutable"

HttpPrefix == <<"h", "t", "t", "p", ":", "/", "/">>
HttpsPrefix == <<"h", "t", "t", "p", "s", ":", "/", "/">>

HasHttpScheme(u) == HasPrefix(u, HttpPrefix) \/ HasPrefix(u, HttpsPrefix)

\* the port part of host[:port] is a number in [MinPort, MaxPort]
UpstreamPortOk(upstream) ==
    LET i    == LastIndexOf(upstream, ":")
        port == Tail2(upstream, i + 1)
    IN  i = 0 \/ (port # <<>> /\ AllDigits(port) /\ Atoi(port) >= MinPort /\ Atoi(port) <= MaxPort)

SubdomainChars == Letters \cup Digits \cup {"."}

\* the host of a proxy URL consists of lower case alphanumeric characters and dots
ProxySubdomainOk(u) ==
    LET h == IF HasPrefix(u, HttpsPrefix) THEN Tail2(u, Len(HttpsPrefix) + 1)
             ELSE IF HasPrefix(u, HttpPrefix) THEN Tail2(u, Len(HttpPrefix) + 1)
             ELSE u
    IN  h # <<>> /\ \A i \in 1..Len(h) : h[i] \in SubdomainChars

ValidStorageClassNames == {"standard", "nonstandard"}

validateProxyURL(path, p) ==
    IF p = Nil THEN <<>>
    ELSE (IF HasHttpScheme(p[1]) THEN <<>> ELSE <<Invalid(path, p[1], DetailScheme)>>)
         \o (IF ProxySubdomainOk(p[1]) THEN <<>> ELSE <<Invalid(path, p[1], DetailSubdomain)>>)

\* validateRegistryCache: the rules for one entry of config.Caches
validateRegistryCache(cache, fldPath) ==
    (IF UpstreamPortOk(cache.Upstream) THEN <<>>
     ELSE <<Invalid(Child(fldPath, "upstream"), cache.Upstream, DetailPort)>>)
    \o (IF cache.RemoteURL # Nil /\ ~HasHttpScheme(cache.RemoteURL[1])
        THEN <<Invalid(Child(fldPath, "remoteURL"), cache.RemoteURL[1], DetailScheme)>> ELSE <<>>)
    \o (IF cache.Volume # Nil /\ cache.Volume[1].Size # Nil /\ cache.Volume[1].Size[1] <= 0
        THEN <<Invalid(Child(Child(fldPath, "volume"), "size"), cache.Volume[1].Size[1], DetailSize)>> ELSE <<>>)
    \o (IF cache.Volume # Nil /\ cache.Volume[1].StorageClassName # Nil
           /\ cache.Volume[1].StorageClassName[1] \notin ValidStorageClassNames
        THEN <<Invalid(Child(Child(fldPath, "volume"), "storageClassName"),
                       cache.Volume[1].StorageClassName[1], DetailStorageClass)>> ELSE <<>>)
    \o (IF cache.GarbageCollection # Nil /\ cache.GarbageCollection[1].TTL < 0
        THEN <<Invalid(Child(Child(fldPath, "garbageCollection"), "ttl"),
                       cache.GarbageCollection[1].TTL, DetailTTL)>> ELSE <<>>)
    \o (IF cache.Proxy = Nil THEN <<>>
        ELSE validateProxyURL(Child(Child(fldPath, "proxy"), "httpProxy"), cache.Proxy[1].HTTPProxy)
             \o validateProxyURL(Child(Child(fldPath, "proxy"), "httpsProxy"), cache.Proxy[1].HTTPSProxy))

\* ValidateRegistryConfig: every cache of the wrapper, reported under caches[i]
ValidateRegistryConfig(config, fldPath) ==
    validateRegistryCache(config.Caches[1], Child(fldPath, "caches[0]"))

\* ValidateUpstreamRegistrySecret: the four structural rules, each reported on its own
ValidateUpstreamRegistrySecret(secret, fldPath, secretReference) ==
    (IF secret.Immutable = Ptr(TRUE) THEN <<>> ELSE <<Invalid(fldPath, secretReference, DetailMutable)>>)
    \o (IF Cardinality(secret.Data) = 2 THEN <<>> ELSE <<Invalid(fldPath, secretReference, DetailTwoEntries)>>)
    \o (IF "username" \in secret.Data THEN <<>> ELSE <<Invalid(fldPath, secretReference, DetailNoUsername)>>)
    \o (IF "password" \in secret.Data THEN <<>> ELSE <<Invalid(fldPath, secretReference, DetailNoPassword)>>)

GCEnabled(gc) == gc # Nil /\ gc[1].TTL > 0

VolumeField(vol, f) == IF vol = Nil THEN Nil ELSE vol[1][f]

\* ValidateRegistryConfigUpdate: immutable volume fields, the garbage-collection
\* transition, then the rules of ValidateRegistryConfig on the new configuration
ValidateRegistryConfigUpdate(oldConfig, newConfig, fldPath) ==
    LET old  == oldConfig.Caches[1]
        new  == newConfig.Caches[1]
        path == Child(fldPath, "caches[0]")
        oldSize == VolumeField(old.Volume, "Size")
        newSize == VolumeField(new.Volume, "Size")
        oldSC == VolumeField(old.Volume, "StorageClassName")
        newSC == VolumeField(new.Volume, "StorageClassName")
    IN  (IF oldSize # Nil /\ newSize # Nil /\ oldSize # newSize
         THEN <<Invalid(Child(Child(path, "volume"), "size"), newSize[1], DetailImmutable)>> ELSE <<>>)
        \o (IF oldSC # Nil /\ newSC # Nil /\ oldSC # newSC
            THEN <<Invalid(Child(Child(path, "volume"), "storageClassName"), newSC, DetailImmutable)>> ELSE <<>>)
        \o (IF ~GCEnabled(old.GarbageCollection) /\ GCEnabled(new.GarbageCollection)
            THEN <<Invalid(Child(Child(path, "garbageCollection"), "ttl"), new.GarbageCollection, DetailGC)>>
            ELSE <<>>)
        \o ValidateRegistryConfig(newConfig, fldPath)

----------------------------------------------------------------------------
(* The DNS capability: nil, or an implementation answering from a set of    *)
(* resolvable names.                                                        *)

IsResolvable(dns, host) == host \in dns[1]

----------------------------------------------------------------------------
(* package validations: the Validator *)

NewValidator(secrets, existing, dnsValidator) ==
    [secrets |-> secrets, existingConfigs |-> existing, dns |-> dnsValidator]

toExtensionCache(c) ==
    [Upstream |-> c.Upstream,
     RemoteURL |-> c.RemoteURL,
     SecretReferenceName |-> c.SecretReferenceName,
     Volume |-> IF c.Volume # Nil
                THEN Ptr([Size |-> c.Volume[1].Size, StorageClassName |-> c.Volume[1].StorageClassName])
                ELSE Nil,
     GarbageCollection |-> IF c.GarbageCollection # Nil THEN Ptr([TTL |-> c.GarbageCollection[1].TTL]) ELSE Nil,
     Proxy |-> IF c.Proxy # Nil
               THEN Ptr([HTTPProxy |-> c.Proxy[1].HTTPProxy, HTTPSProxy |-> c.Proxy[1].HTTPSProxy])
               ELSE Nil,
     HTTP |-> IF c.HTTP # Nil THEN Ptr([TLS |-> c.HTTP[1].TLS]) ELSE Nil]

toExtensionConfig(rc) == [Caches |-> <<toExtensionCache(rc.Spec)>>]

\* the loop of validateUpstreamUniqueness from position i on
RECURSIVE uniquenessFrom(_, _, _)
uniquenessFrom(newConfig, existingConfigs, i) ==
    IF i > Len(existingConfigs) THEN <<>>
    ELSE IF existingConfigs[i].Name = newConfig.Name /\ existingConfigs[i].Namespace = newConfig.Namespace
         THEN uniquenessFrom(newConfig, existingConfigs, i + 1)
    ELSE IF existingConfigs[i].Spec.Upstream = newConfig.Spec.Upstream
         THEN <<Duplicate(Child(SpecPath, "upstream"), newConfig.Spec.Upstream)>>
    ELSE uniquenessFrom(newConfig, existingConfigs, i + 1)

\* the loop comparing names only when it skips the candidate's own object
RECURSIVE uniquenessByNameFrom(_, _, _)
uniquenessByNameFrom(newConfig, existingConfigs, i) ==
    IF i > Len(existingConfigs) THEN <<>>
    ELSE IF existingConfigs[i].Name = newConfig.Name
         THEN uniquenessByNameFrom(newConfig, existingConfigs, i + 1)
    ELSE IF existingConfigs[i].Spec.Upstream = newConfig.Spec.Upstream
         THEN <<Duplicate(Child(SpecPath, "upstream"), newConfig.Spec.Upstream)>>
    ELSE uniquenessByNameFrom(newConfig, existingConfigs, i + 1)

validateUpstreamUniqueness_ByName(newConfig, existingConfigs) ==
    uniquenessByNameFrom(newConfig, existingConfigs, 1)

\* the loop without the skip of the candidate's own object
RECURSIVE uniquenessNoSkipFrom(_, _, _)
uniquenessNoSkipFrom(newConfig, existingConfigs, i) ==
    IF i > Len(existingConfigs) THEN <<>>
    ELSE IF existingConfigs[i].Spec.Upstream = newConfig.Spec.Upstream
         THEN <<Duplicate(Child(SpecPath, "upstream"), newConfig.Spec.Upstream)>>
    ELSE uniquenessNoSkipFrom(newConfig, existingConfigs, i + 1)

validateUpstreamUniqueness_NoSelfSkip(newConfig, existingConfigs) ==
    uniquenessNoSkipFrom(newConfig, existingConfigs, 1)

\* the loop comparing only configurations of the candidate's namespace
RECURSIVE uniquenessInNamespaceFrom(_, _, _)
uniquenessInNamespaceFrom(newConfig, existingConfigs, i) ==
    IF i > Len(existingConfigs) THEN <<>>
    ELSE IF existingConfigs[i].Namespace # newConfig.Namespace \/ existingConfigs[i].Name = newConfig.Name
         THEN uniquenessInNamespaceFrom(newConfig, existingConfigs, i + 1)
    ELSE IF existingConfigs[i].Spec.Upstream = newConfig.Spec.Upstream
         THEN <<Duplicate(Child(SpecPath, "upstream"), newConfig.Spec.Upstream)>>
    ELSE uniquenessInNamespaceFrom(newConfig, existingConfigs, i + 1)

validateUpstreamUniqueness_InNamespace(newConfig, existingConfigs) ==
    uniquenessInNamespaceFrom(newConfig, existingConfigs, 1)

\* the loop of the earlier iteration: it goes on after a collision and reports every one
RECURSIVE uniquenessNoBreakFrom(_, _, _)
uniquenessNoBreakFrom(newConfig, existingConfigs, i) ==
    IF i > Len(existingConfigs) THEN <<>>
    ELSE IF existingConfigs[i].Name = newConfig.Name /\ existingConfigs[i].Namespace = newConfig.Namespace
         THEN uniquenessNoBreakFrom(newConfig, existingConfigs, i + 1)
    ELSE IF existingConfigs[i].Spec.Upstream = newConfig.Spec.Upstream
         THEN <<Duplicate(Child(SpecPath, "upstream"), newConfig.Spec.Upstream)>>
              \o uniquenessNoBreakFrom(newConfig, existingConfigs, i + 1)
    ELSE uniquenessNoBreakFrom(newConfig, existingConfigs, i + 1)

validateUpstreamUniqueness_NoBreak(newConfig, existingConfigs) ==
    uniquenessNoBreakFrom(newConfig, existingConfigs, 1)

validateUpstreamUniqueness(newConfig, existingConfigs) ==
    uniquenessFrom(newConfig, existingConfigs, 1)

validateUpstreamResolvability(newConfig, dns) ==
    LET u == newConfig.Spec.Upstream
    IN  IF u # <<>> /\ dns # Nil /\ ~IsResolvable(dns, u)
        THEN <<Invalid(Child(SpecPath, "upstream"), u, "upstream is not DNS resolvable")>>
        ELSE <<>>

\* the names validateUpstreamResolvability hands to dns.IsResolvable
upstreamAsked(newConfig, dns) ==
    IF newConfig.Spec.Upstream # <<>> /\ dns # Nil
    THEN <<[check |-> "upstream", host |-> newConfig.Spec.Upstream]>>
    ELSE <<>>

\* the check asking about URL.Host, port included, instead of URL.Hostname()
validateRemoteURLResolvability_HostWithPort(newConfig, dns) ==
    IF newConfig.Spec.RemoteURL # Nil /\ urlParse(newConfig.Spec.RemoteURL[1]).ok
    THEN LET host == urlParse(newConfig.Spec.RemoteURL[1]).Host
         IN  IF host # <<>> /\ dns # Nil /\ ~IsResolvable(dns, host)
             THEN <<Invalid(Child(SpecPath, "remoteURL"), newConfig.Spec.RemoteURL,
                            "remoteURL is not DNS resolvable")>>
             ELSE <<>>
    ELSE <<>>

validateRemoteURLResolvability(newConfig, dns) ==
    IF newConfig.Spec.RemoteURL # Nil /\ urlParse(newConfig.Spec.RemoteURL[1]).ok
    THEN LET host == Hostname(urlParse(newConfig.Spec.RemoteURL[1]).Host)
         IN  IF host # <<>> /\ dns # Nil /\ ~IsResolvable(dns, host)
             THEN <<Invalid(Child(SpecPath, "remoteURL"), newConfig.Spec.RemoteURL,
                            "remoteURL is not DNS resolvable")>>
             ELSE <<>>
    ELSE <<>>

\* the names validateRemoteURLResolvability hands to dns.IsResolvable
remoteURLAsked(newConfig, dns) ==
    IF newConfig.Spec.RemoteURL # Nil /\ urlParse(newConfig.Spec.RemoteURL[1]).ok
    THEN LET host == Hostname(urlParse(newConfig.Spec.RemoteURL[1]).Host)
         IN  IF host # <<>> /\ dns # Nil THEN <<[check |-> "remoteURL", host |-> host]>> ELSE <<>>
    ELSE <<>>

\* the lookup matching the name alone
secretIndex_AnyNamespace(secrets, name, namespace) ==
    IF \E i \in 1..Len(secrets) : secrets[i].Name = name
    THEN CHOOSE i \in 1..Len(secrets) :
            secrets[i].Name = name /\ \A j \in 1..(i - 1) : secrets[j].Name # name
    ELSE 0

\* slices.IndexFunc: the first secret with the name and the namespace, 0 when none
secretIndex(secrets, name, namespace) ==
    IF \E i \in 1..Len(secrets) : secrets[i].Name = name /\ secrets[i].Namespace = namespace
    THEN CHOOSE i \in 1..Len(secrets) :
            /\ secrets[i].Name = name /\ secrets[i].Namespace = namespace
            /\ \A j \in 1..(i - 1) : ~(secrets[j].Name = name /\ secrets[j].Namespace = namespace)
    ELSE 0

\* the check keeping only the first error of the secret-structure checker
validateSecretReferenceName_FirstDefectOnly(newConfig, secrets) ==
    IF newConfig.Spec.SecretReferenceName # Nil
    THEN LET name == newConfig.Spec.SecretReferenceName[1]
             idx  == secretIndex(secrets, name, newConfig.Namespace)
             secretErrors == ValidateUpstreamRegistrySecret(secrets[idx], Child(SpecPath, "secretReferenceName"), name)
         IN  IF idx = 0
             THEN <<Invalid(Child(SpecPath, "secretReferenceName"), name, "secret does not exist")>>
             ELSE SubSeq(secretErrors, 1, 1)
    ELSE <<>>

\* the check accepting every secret it finds
validateSecretReferenceName_ExistenceOnly(newConfig, secrets) ==
    IF newConfig.Spec.SecretReferenceName # Nil
    THEN LET name == newConfig.Spec.SecretReferenceName[1]
             idx  == secretIndex(secrets, name, newConfig.Namespace)
         IN  IF idx = 0
             THEN <<Invalid(Child(SpecPath, "secretReferenceName"), name, "secret does not exist")>>
             ELSE <<>>
    ELSE <<>>

validateSecretReferenceName(newConfig, secrets) ==
    IF newConfig.Spec.SecretReferenceName # Nil
    THEN LET name == newConfig.Spec.SecretReferenceName[1]
             idx  == secretIndex(secrets, name, newConfig.Namespace)
         IN  IF idx = 0
             THEN <<Invalid(Child(SpecPath, "secretReferenceName"), name, "secret does not exist")>>
             ELSE ValidateUpstreamRegistrySecret(secrets[idx], Child(SpecPath, "secretReferenceName"), name)
    ELSE <<>>

isEmptySpec(s) ==
    /\ s.Upstream = <<>>
    /\ s.RemoteURL = Nil
    /\ s.Volume = Nil
    /\ s.GarbageCollection = Nil
    /\ s.Proxy = Nil
    /\ s.SecretReferenceName = Nil
    /\ s.HTTP = Nil

\* adjustPath joining every part again, the second included
adjustPath_KeepsSecondPart(parts) == parts

\* a path string is kept as strings.Split(path, ".") of it
adjustPath(parts) ==
    IF Len(parts) < 2 THEN parts
    ELSE SubSeq(parts, 1, 1) \o SubSeq(parts, 3, Len(parts))

transformFieldErrors(errs) ==
    [i \in 1..Len(errs) |-> [errs[i] EXCEPT !.Field = adjustPath(errs[i].Field)]]

\* validateCommon returning at the first check that reports an error
validateCommon_StopAtFirst(val, newConfig) ==
    IF validateUpstreamUniqueness(newConfig, val.existingConfigs) # <<>>
    THEN validateUpstreamUniqueness(newConfig, val.existingConfigs)
    ELSE IF validateUpstreamResolvability(newConfig, val.dns) # <<>>
    THEN validateUpstreamResolvability(newConfig, val.dns)
    ELSE IF validateRemoteURLResolvability(newConfig, val.dns) # <<>>
    THEN validateRemoteURLResolvability(newConfig, val.dns)
    ELSE validateSecretReferenceName(newConfig, val.secrets)

validateCommon(val, newConfig) ==
    validateUpstreamUniqueness(newConfig, val.existingConfigs)
    \o validateUpstreamResolvability(newConfig, val.dns)
    \o validateRemoteURLResolvability(newConfig, val.dns)
    \o validateSecretReferenceName(newConfig, val.secrets)

\* Do with the emptiness guard appending its error instead of returning it
Do_GuardDoesNotReturn(val, newConfig) ==
    (IF isEmptySpec(newConfig.Spec) THEN <<Required(SpecPath, "spec must not be empty")>> ELSE <<>>)
    \o validateCommon(val, newConfig)
    \o transformFieldErrors(ValidateRegistryConfig(toExtensionConfig(newConfig), SpecPath))

\* Do without the call of the domain-rule checker
Do_SkipsDomainRules(val, newConfig) ==
    IF isEmptySpec(newConfig.Spec)
    THEN <<Required(SpecPath, "spec must not be empty")>>
    ELSE validateCommon(val, newConfig)

Do(val, newConfig) ==
    IF isEmptySpec(newConfig.Spec)
    THEN <<Required(SpecPath, "spec must not be empty")>>
    ELSE validateCommon(val, newConfig)
         \o transformFieldErrors(ValidateRegistryConfig(toExtensionConfig(newConfig), SpecPath))

\* DoOnUpdate handing the two configurations to the update rules in the wrong order
DoOnUpdate_SwappedArguments(val, newConfig, oldConfig) ==
    IF isEmptySpec(newConfig.Spec)
    THEN <<Required(SpecPath, "spec must not be empty")>>
    ELSE validateCommon(val, newConfig)
         \o transformFieldErrors(ValidateRegistryConfigUpdate(toExtensionConfig(newConfig),
                                                              toExtensionConfig(oldConfig), SpecPath))

\* DoOnUpdate comparing the candidate with a zero-valued previous configuration
DoOnUpdate_ComparesWithEmpty(val, newConfig, oldConfig) ==
    IF isEmptySpec(newConfig.Spec)
    THEN <<Required(SpecPath, "spec must not be empty")>>
    ELSE validateCommon(val, newConfig)
         \o transformFieldErrors(ValidateRegistryConfigUpdate(
                [Caches |-> <<toExtensionCache([Upstream |-> <<>>, RemoteURL |-> Nil, SecretReferenceName |-> Nil,
                                                Volume |-> Nil, GarbageCollection |-> Nil, Proxy |-> Nil,
                                                HTTP |-> Nil])>>],
                toExtensionConfig(newConfig), SpecPath))

DoOnUpdate(val, newConfig, oldConfig) ==
    IF isEmptySpec(newConfig.Spec)
    THEN <<Required(SpecPath, "spec must not be empty")>>
    ELSE validateCommon(val, newConfig)
         \o transformFieldErrors(ValidateRegistryConfigUpdate(toExtensionConfig(oldConfig),
                                                              toExtensionConfig(newConfig), SpecPath))

\* the names one call of Do / DoOnUpdate hands to dns.IsResolvable, in order
Asked(val, newConfig) ==
    IF isEmptySpec(newConfig.Spec) THEN <<>>
    ELSE upstreamAsked(newConfig, val.dns) \o remoteURLAsked(newConfig, val.dns)

----------------------------------------------------------------------------
(* Inputs *)

S_a == <<"a">>
S_b == <<"b">>
S_a5 == <<"a", ":", "5">>
S_a0 == <<"a", ":", "0">>
S_httpA == HttpPrefix \o <<"a">>
S_httpsB5 == HttpsPrefix \o <<"b", ":", "5">>
S_httpAx == HttpPrefix \o <<"a", ":", "x">>
S_httpP == HttpPrefix \o <<"p">>
S_badProxy == <<"h", "t", "t", "p", "/", "/", "p">>

Upstreams == {<<>>, S_a, S_b, S_a5, S_a0}
RemoteURLs == {Nil, Ptr(S_httpA), Ptr(S_httpsB5), Ptr(S_httpAx), Ptr(S_a)}
SecretRefs == {Nil, Ptr("s1")}

Vol(size, sc) == Ptr([Size |-> Ptr(size), StorageClassName |-> sc])
GC(ttl) == Ptr([TTL |-> ttl])

NoExtras == [Volume |-> Nil, GarbageCollection |-> Nil, Proxy |-> Nil, HTTP |-> Nil]

Extras ==
    { [NoExtras EXCEPT !.Volume = Vol(10, Ptr("standard"))],
      [NoExtras EXCEPT !.Volume = Vol(20, Ptr("nonstandard")), !.GarbageCollection = GC(1)],
      [NoExtras EXCEPT !.GarbageCollection = GC(0)],
      [NoExtras EXCEPT !.Proxy = Ptr([HTTPProxy |-> Ptr(S_httpP), HTTPSProxy |-> Nil])],
      [NoExtras EXCEPT !.HTTP = Ptr([TLS |-> TRUE])],
      [NoExtras EXCEPT !.Volume = Vol(-1, Ptr("Invalid.Name")), !.GarbageCollection = GC(-1),
                       !.Proxy = Ptr([HTTPProxy |-> Ptr(S_badProxy), HTTPSProxy |-> Ptr(S_badProxy)])] }

MkSpec(upstream, remoteURL, secretRef, extras) ==
    [Upstream |-> upstream, RemoteURL |-> remoteURL, SecretReferenceName |-> secretRef,
     Volume |-> extras.Volume, GarbageCollection |-> extras.GarbageCollection,
     Proxy |-> extras.Proxy, HTTP |-> extras.HTTP]

MkConfig(name, namespace, spec) == [Name |-> name, Namespace |-> namespace, Spec |-> spec]

SameIdentityAs(x, y) == x.Name = y.Name /\ x.Namespace = y.Namespace

\* the specs a request carries: every combination of upstream, remoteURL and
\* secret reference, and the optional sub-objects on an empty and a set upstream
CandidateSpecs ==
    { MkSpec(u, r, sr, NoExtras) : u \in Upstreams, r \in RemoteURLs, sr \in SecretRefs }
    \cup { MkSpec(u, Nil, Nil, e) : u \in {<<>>, S_a}, e \in Extras }

Candidates == { MkConfig("config1", "default", sp) : sp \in CandidateSpecs }

\* the stored object an update replaces: same name and namespace
OldConfigs ==
    { MkConfig("config1", "default", MkSpec(S_a, Nil, Nil, NoExtras)),
      MkConfig("config1", "default",
               MkSpec(S_b, Nil, Nil, [NoExtras EXCEPT !.Volume = Vol(10, Ptr("standard")),
                                                      !.GarbageCollection = GC(0)])) }

\* configurations a lister can return: the candidate's own stored object, one of
\* another name and one of another namespace
ExistingPool ==
    { MkConfig("config1", "default", MkSpec(S_a, Nil, Nil, NoExtras)) }
    \cup { MkConfig("config2", "default", MkSpec(u, Nil, Nil, NoExtras)) : u \in {S_a, S_b} }
    \cup { MkConfig("config1", "other", MkSpec(S_a, Nil, Nil, NoExtras)),
            MkConfig("config2", "default", MkSpec(<<>>, Nil, Nil, [NoExtras EXCEPT !.HTTP = Ptr([TLS |-> TRUE])])) }

SecretPool ==
    { [Name |-> "s1", Namespace |-> "default", Immutable |-> im, Data |-> {"username", "password"}] :
        im \in {Ptr(TRUE), Ptr(FALSE), Nil} }
    \cup { [Name |-> "s1", Namespace |-> "default", Immutable |-> Ptr(TRUE), Data |-> d] :
             d \in { {"invalid-key"}, {"username", "password", "invalid-key"}, {"username", "invalid-key"} } }
    \cup { [Name |-> "s1", Namespace |-> "default", Immutable |-> Ptr(FALSE), Data |-> {"invalid-key"}],
            [Name |-> "s1", Namespace |-> "other", Immutable |-> Ptr(TRUE), Data |-> {"username", "password"}] }

\* sequences over pool of length at most n in which no two elements share name and namespace
DistinctSeqs(pool, n) ==
    { q \in UNION { [1..k -> pool] : k \in 0..n } :
        \A i, j \in 1..Len(q) : i # j => ~(q[i].Name = q[j].Name /\ q[i].Namespace = q[j].Namespace) }

ConfigLists == DistinctSeqs(ExistingPool, MaxConfigs)
SecretLists == DistinctSeqs(SecretPool, MaxSecrets)
DNSChoices == {Nil} \cup { Ptr(names) : names \in {{}, {S_a}, {S_a5}, {S_a, S_b}} }

\* the RegistryCache the lifecycle test creates
ObjectNames == {"test-resource"}

\* the goroutines of the webhook server that serve requests at the same time
Goroutines == {"g1", "g2"}

----------------------------------------------------------------------------
(* One request: a Validator is built from fresh snapshots, called once and  *)
(* dropped.                                                                 *)

Init ==
    /\ v = Nil
    /\ call = Nil
    /\ cluster = <<>>
    /\ response = Nil
    /\ objects = [n \in ObjectNames |-> Nil]
    /\ webhookReady = FALSE
    /\ events = {}
    /\ reconcile = Nil
    /\ frames = [g \in Goroutines |-> Nil]

Construct ==
    /\ v = Nil
    /\ \E secrets \in SecretLists, existing \in ConfigLists, dnsValidator \in DNSChoices :
          v' = Ptr(NewValidator(secrets, existing, dnsValidator))
    /\ UNCHANGED <<call, cluster, response, controllerVars, frames>>

CallDo ==
    /\ v # Nil
    /\ call = Nil
    /\ \E newConfig \in Candidates :
          call' = Ptr([op |-> "Do", newConfig |-> newConfig, oldConfig |-> Nil,
                       errs |-> Do(v[1], newConfig), asked |-> Asked(v[1], newConfig)])
    /\ UNCHANGED <<v, cluster, response, controllerVars, frames>>

CallDoOnUpdate ==
    /\ v # Nil
    /\ call = Nil
    /\ \E newConfig \in Candidates, oldConfig \in OldConfigs :
          call' = Ptr([op |-> "DoOnUpdate", newConfig |-> newConfig, oldConfig |-> Ptr(oldConfig),
                       errs |-> DoOnUpdate(v[1], newConfig, oldConfig), asked |-> Asked(v[1], newConfig)])
    /\ UNCHANGED <<v, cluster, response, controllerVars, frames>>

Return ==
    /\ call # Nil
    /\ v' = Nil
    /\ call' = Nil
    /\ UNCHANGED <<cluster, response, controllerVars, frames>>

Next == Construct \/ CallDo \/ CallDoOnUpdate \/ Return

Spec == Init /\ [][Next]_vars

----------------------------------------------------------------------------
(* Requests that exercise the domain rules: upstreams with ports around the *)
(* limits of the range, and updates over every pair of volume and           *)
(* garbage-collection settings.                                             *)

S_a1 == <<"a", ":", "1">>
S_a65535 == <<"a", ":", "6", "5", "5", "3", "5">>
S_a65536 == <<"a", ":", "6", "5", "5", "3", "6">>
S_a77777 == <<"a", ":", "7", "7", "7", "7", "7">>

PortUpstreams == {S_a, S_a0, S_a1, S_a5, S_a65535, S_a65536, S_a77777}

Volumes ==
    { Nil,
      Ptr([Size |-> Nil, StorageClassName |-> Nil]),
      Ptr([Size |-> Ptr(10), StorageClassName |-> Nil]),
      Vol(10, Ptr("standard")),
      Vol(20, Ptr("standard")),
      Vol(10, Ptr("nonstandard")),
      Vol(20, Ptr("nonstandard")) }

GarbageCollections == {Nil, GC(0), GC(1), GC(2)}

\* the specs of a stored object and of its update
UpdateSpecs ==
    { MkSpec(u, Nil, Nil, [NoExtras EXCEPT !.Volume = vol, !.GarbageCollection = gc]) :
        u \in {<<>>, S_a, S_b}, vol \in Volumes, gc \in GarbageCollections }

UpdateObjects == { MkConfig("config1", "default", sp) : sp \in UpdateSpecs }

PortCandidates ==
    { MkConfig("config1", "default", MkSpec(u, r, Nil, NoExtras)) :
        u \in PortUpstreams, r \in {Nil, Ptr(S_httpA)} }

\* candidates with optional settings, well-formed and not
RuleCandidates ==
    { MkConfig("config1", "default", MkSpec(u, r, Nil, e)) :
        u \in {<<>>, S_a, S_a0}, r \in {Nil, Ptr(S_a)}, e \in Extras }

\* the snapshots such a request is validated against
UpdateValidators ==
    { NewValidator(secrets, existing, dnsValidator) :
        secrets \in {<<>>},
        existing \in { <<>>,
                       << MkConfig("config1", "default", MkSpec(S_a, Nil, Nil, NoExtras)),
                          MkConfig("config2", "default", MkSpec(S_b, Nil, Nil, NoExtras)) >> },
        dnsValidator \in {Nil, Ptr({S_a, S_b})} }

ConstructForUpdate ==
    /\ v = Nil
    /\ \E val \in UpdateValidators : v' = Ptr(val)
    /\ UNCHANGED <<call, cluster, response, controllerVars, frames>>

CallDoWithPort ==
    /\ v # Nil
    /\ call = Nil
    /\ \E newConfig \in PortCandidates \cup RuleCandidates :
          call' = Ptr([op |-> "Do", newConfig |-> newConfig, oldConfig |-> Nil,
                       errs |-> Do(v[1], newConfig), asked |-> Asked(v[1], newConfig)])
    /\ UNCHANGED <<v, cluster, response, controllerVars, frames>>

CallDoOnUpdateOfStored ==
    /\ v # Nil
    /\ call = Nil
    /\ \E newConfig \in UpdateObjects, oldConfig \in UpdateObjects :
          call' = Ptr([op |-> "DoOnUpdate", newConfig |-> newConfig, oldConfig |-> Ptr(oldConfig),
                       errs |-> DoOnUpdate(v[1], newConfig, oldConfig), asked |-> Asked(v[1], newConfig)])
    /\ UNCHANGED <<v, cluster, response, controllerVars, frames>>

UpdateNext == ConstructForUpdate \/ CallDoWithPort \/ CallDoOnUpdateOfStored \/ Return

UpdateSpec == Init /\ [][UpdateNext]_vars

----------------------------------------------------------------------------
(* The admission webhook (RegistryCacheConfigCustomValidator) in front of   *)
(* the API server's store.                                                  *)

\* the secrets of the cluster, and the names the cluster's DNS resolves
ClusterSecrets ==
    << [Name |-> "s1", Namespace |-> "default", Immutable |-> Ptr(TRUE), Data |-> {"username", "password"}] >>
ResolvableNames == {S_a, S_b}

\* DefaultDNSValidator.IsResolvable: false for "", else whether the lookup returns an address
DefaultDNSValidator == Ptr(ResolvableNames \ {<<>>})

\* client.InNamespace as a list option
InNamespace(items, namespace) == SelectSeq(items, LAMBDA o : o.Namespace = namespace)

\* the configurations the Validator built from the client compares against: all of the cluster
ListExistingConfigs(stored) == stored

ValidatorForRequest(stored, obj) ==
    NewValidator(InNamespace(ClusterSecrets, obj.Namespace), ListExistingConfigs(stored), DefaultDNSValidator)

\* an aggregate made of the first error alone
ToAggregate_FirstOnly(errs) == IF errs = <<>> THEN Nil ELSE Ptr(SubSeq(errs, 1, 1))

\* field.ErrorList.ToAggregate: nil for an empty list, else one error carrying every entry
ToAggregate(errs) == IF errs = <<>> THEN Nil ELSE Ptr(errs)

\* what v.client.List does for one request: both lists succeed, the list of
\* the configurations fails, or the list of the secrets fails
Clients == {"ok", "listConfigsFails", "listSecretsFails"}

\* fmt.Errorf: an error that is no field error
PlainError(detail) == [Type |-> "", Field |-> <<>>, BadValue |-> <<>>, Detail |-> detail]

ValidateCreate(client, stored, obj) ==
    IF client = "listConfigsFails"
    THEN Ptr(<<PlainError("failed to list existing RegistryCacheConfig resources")>>)
    ELSE IF client = "listSecretsFails"
    THEN Ptr(<<PlainError("failed to list secrets")>>)
    ELSE ToAggregate(Do(ValidatorForRequest(stored, obj), obj))

ValidateUpdate(client, stored, oldObj, newObj) ==
    IF client = "listConfigsFails"
    THEN Ptr(<<PlainError("failed to list existing RegistryCacheConfig resources")>>)
    ELSE IF client = "listSecretsFails"
    THEN Ptr(<<PlainError("failed to list secrets")>>)
    ELSE ToAggregate(DoOnUpdate(ValidatorForRequest(stored, newObj), newObj, oldObj))

\* the type assertion of the scaffold with its test inverted: an error for every RegistryCacheConfig
ValidateDelete_TypeCheckInverted(stored, obj) ==
    [warnings |-> Nil,
     err |-> Ptr(<<PlainError("expected a RegistryCacheConfig object")>>)]

\* ValidateDelete: `return nil, nil`, the warnings and the error
ValidateDelete(stored, obj) == [warnings |-> Nil, err |-> Nil]

AdmissionSpecs ==
    { MkSpec(u, Nil, sr, NoExtras) : u \in {S_a, S_b, S_a5}, sr \in SecretRefs }
    \cup { MkSpec(<<>>, Nil, Nil, NoExtras),
           MkSpec(<<>>, Nil, Nil, [NoExtras EXCEPT !.HTTP = Ptr([TLS |-> TRUE])]) }

AdmissionObjects ==
    { MkConfig(n, ns, sp) : n \in {"config1", "config2"}, ns \in {"default", "other"}, sp \in AdmissionSpecs }

StoredAt(stored, obj) == { i \in 1..Len(stored) : SameIdentityAs(stored[i], obj) }

\* a create request served with a client behaving as client: the webhook
\* decides, the API server stores what it admits
CreateRequestWith(client) ==
    \E obj \in AdmissionObjects :
        /\ StoredAt(cluster, obj) = {}
        /\ Len(cluster) < MaxStored
        /\ LET err == ValidateCreate(client, cluster, obj)
           IN  /\ response' = Ptr([op |-> "CREATE", obj |-> obj, before |-> cluster, client |-> client,
                                   allowed |-> (err = Nil), errs |-> IF err = Nil THEN <<>> ELSE err[1]])
               /\ cluster' = IF err = Nil THEN Append(cluster, obj) ELSE cluster
        /\ UNCHANGED <<v, call, controllerVars, frames>>

CreateRequest == CreateRequestWith("ok")

\* an update request for a stored object
UpdateRequestWith(client) ==
    \E obj \in AdmissionObjects :
        /\ StoredAt(cluster, obj) # {}
        /\ LET i   == CHOOSE k \in StoredAt(cluster, obj) : TRUE
               err == ValidateUpdate(client, cluster, cluster[i], obj)
           IN  /\ response' = Ptr([op |-> "UPDATE", obj |-> obj, before |-> cluster, client |-> client,
                                   allowed |-> (err = Nil), errs |-> IF err = Nil THEN <<>> ELSE err[1]])
               /\ cluster' = IF err = Nil THEN [cluster EXCEPT ![i] = obj] ELSE cluster
        /\ UNCHANGED <<v, call, controllerVars, frames>>

UpdateRequest == UpdateRequestWith("ok")

\* a delete request for a stored object
DeleteRequest ==
    \E i \in 1..Len(cluster) :
        /\ LET res == ValidateDelete(cluster, cluster[i])
               err == res.err
           IN  /\ response' = Ptr([op |-> "DELETE", obj |-> cluster[i], before |-> cluster,
                                   allowed |-> (err = Nil), errs |-> IF err = Nil THEN <<>> ELSE err[1],
                                   warnings |-> res.warnings])
               /\ cluster' = IF err = Nil
                             THEN SubSeq(cluster, 1, i - 1) \o SubSeq(cluster, i + 1, Len(cluster))
                             ELSE cluster
        /\ UNCHANGED <<v, call, controllerVars, frames>>

AdmissionNext == CreateRequest \/ UpdateRequest \/ DeleteRequest

AdmissionSpec == Init /\ [][AdmissionNext]_vars

\* requests during which a List call of the handler fails with a transport error
CreateRequestClientFails == \E client \in Clients \ {"ok"} : CreateRequestWith(client)

UpdateRequestClientFails == \E client \in Clients \ {"ok"} : UpdateRequestWith(client)

FailingClientNext ==
    CreateRequest \/ UpdateRequest \/ DeleteRequest \/ CreateRequestClientFails \/ UpdateRequestClientFails

FailingClientSpec == Init /\ [][FailingClientNext]_vars

----------------------------------------------------------------------------
(* package rccontroller: the RegistryCache reconciler. One Reconcile call   *)
(* reads the object, takes one branch and makes at most one write; the API  *)
(* server removes an object that is being deleted once it has no finalizer. *)

requeueInterval == 5
requeueHealthInterval == 30
finalizer == "registry-cache.kyma-project.io/finalizer"

StateReady == "Ready"
StateProcessing == "Processing"
StateWarning == "Warning"
StateError == "Error"
StateDeleting == "Deleting"
States == {"", StateProcessing, StateDeleting, StateReady, StateError, StateWarning}

ConditionTrue == "True"
ConditionFalse == "False"
ConditionUnknown == "Unknown"

\* what the client does in one Reconcile call: every call succeeds, the Get
\* fails with a transport error, or the write (patch / update) fails
ClientOutcomes == {"ok", "getFails", "writeFails"}

\* a RegistryCache as the test creates it: no finalizer, no deletion timestamp, empty status
newRegistryCacheStub(name) ==
    [Name |-> name, Finalizers |-> {}, DeletionTimestamp |-> FALSE,
     Status |-> [State |-> "", Installed |-> ""]]

\* r.Event(objectInstance, eventtype, reason, message)
Event(objectInstance, eventtype, reason, message) ==
    [name |-> objectInstance.Name, type |-> eventtype, reason |-> reason, message |-> message]

WithState(status, state) == [status EXCEPT !.State = state]

getInstanceStatus(objectInstance) == objectInstance.Status

\* a handler's outcome: its error, the object as the API server holds it
\* afterwards, and the events emitted
NoWrite(objectInstance) == [err |-> Nil, obj |-> objectInstance, events |-> {}]

\* ssaStatus: the status sub-resource alone is patched
setStatusForObjectInstance(r, objectInstance, status) ==
    IF r.Client = "writeFails"
    THEN [err |-> Ptr("error while updating status"), obj |-> objectInstance,
          events |-> {Event(objectInstance, "Warning", "ErrorUpdatingStatus", <<"updating state to", status.State>>)}]
    ELSE [err |-> Nil, obj |-> [objectInstance EXCEPT !.Status = status],
          events |-> {Event(objectInstance, "Normal", "StatusUpdated", <<"updating state to", status.State>>)}]

setInstanceStatus(r, objectInstance, state, condStatus) ==
    setStatusForObjectInstance(r, objectInstance,
        [WithState(getInstanceStatus(objectInstance), state) EXCEPT !.Installed = condStatus])

\* ssa: the object with the finalizer added is applied
ssa(r, objectInstance, obj) ==
    IF r.Client = "writeFails"
    THEN [err |-> Ptr("error while patching object"), obj |-> objectInstance, events |-> {}]
    ELSE [err |-> Nil, obj |-> obj, events |-> {}]

\* the initial state set to Ready at once
handleInitialState_StraightToReady(r, objectInstance) ==
    setInstanceStatus(r, objectInstance, StateReady, ConditionTrue)

handleInitialState(r, objectInstance) ==
    setInstanceStatus(r, objectInstance, StateProcessing, ConditionUnknown)

\* Ready set without asking the Checker
attemptToBecomeReady_IgnoresChecker(r, objectInstance) ==
    setInstanceStatus(r, objectInstance, StateReady, ConditionTrue)

\* stay in the current state until the webhook server is ready
attemptToBecomeReady(r, objectInstance) ==
    IF ~r.Checker
    THEN NoWrite(objectInstance)
    ELSE setInstanceStatus(r, objectInstance, StateReady, ConditionTrue)

handleProcessingState(r, objectInstance) == attemptToBecomeReady(r, objectInstance)

handleErrorState(r, objectInstance) == attemptToBecomeReady(r, objectInstance)

handleReadyState(r, objectInstance) ==
    IF ~r.Checker
    THEN LET out == setInstanceStatus(r, objectInstance, StateError, ConditionFalse)
         IN  [out EXCEPT !.events = @ \cup {Event(objectInstance, "Error", "Webhook server not ready", <<"checker">>)}]
    ELSE NoWrite(objectInstance)

handleDeletingState(r, objectInstance) ==
    LET deleting == {Event(objectInstance, "Normal", "Deleting", <<"deleting webhook">>)}
    IN  IF finalizer \in objectInstance.Finalizers
        THEN IF r.Client = "writeFails"
             THEN [err |-> Ptr("error while removing finalizer"), obj |-> objectInstance, events |-> deleting]
             ELSE [err |-> Nil, obj |-> [objectInstance EXCEPT !.Finalizers = @ \ {finalizer}],
                   events |-> deleting]
        ELSE [err |-> Nil, obj |-> objectInstance, events |-> deleting]

\* ctrl.Result{RequeueAfter: d} with a handler's outcome; obj is <<>> when no object is stored
Returning(d, out) ==
    [result |-> [RequeueAfter |-> d], err |-> out.err, obj |-> Ptr(out.obj), events |-> out.events]

\* the switch on status.State
handleState(r, instance) ==
    LET status == getInstanceStatus(instance)
    IN  CASE status.State = "" -> Returning(requeueInterval, handleInitialState(r, instance))
          [] status.State = StateProcessing -> Returning(requeueInterval, handleProcessingState(r, instance))
          [] status.State = StateDeleting -> Returning(requeueInterval, handleDeletingState(r, instance))
          [] status.State = StateError -> Returning(requeueHealthInterval, handleErrorState(r, instance))
          [] status.State \in {StateReady, StateWarning} ->
                Returning(requeueHealthInterval, handleReadyState(r, instance))
          [] OTHER -> Returning(0, NoWrite(instance))

\* Reconcile without the branch for an object that is being deleted
Reconcile_IgnoresDeletionTimestamp(r, got) ==
    IF r.Client = "getFails"
    THEN [result |-> [RequeueAfter |-> 0], err |-> Ptr("error while getting object"), obj |-> got, events |-> {}]
    ELSE IF got = Nil
    THEN [result |-> [RequeueAfter |-> 0], err |-> Nil, obj |-> Nil, events |-> {}]
    ELSE LET instance == got[1]
         IN  IF ~instance.DeletionTimestamp /\ finalizer \notin instance.Finalizers
             THEN Returning(requeueInterval,
                            ssa(r, instance, [instance EXCEPT !.Finalizers = @ \cup {finalizer}]))
             ELSE handleState(r, instance)

\* Reconcile for the object the Get returns: got is <<>> when it is not found
Reconcile(r, got) ==
    IF r.Client = "getFails"
    THEN [result |-> [RequeueAfter |-> 0], err |-> Ptr("error while getting object"), obj |-> got, events |-> {}]
    ELSE IF got = Nil
    THEN [result |-> [RequeueAfter |-> 0], err |-> Nil, obj |-> Nil, events |-> {}]
    ELSE LET instance == got[1]
             status   == getInstanceStatus(instance)
         IN  IF instance.DeletionTimestamp /\ status.State # StateDeleting
             THEN Returning(requeueInterval,
                            setStatusForObjectInstance(r, instance, WithState(status, StateDeleting)))
             ELSE IF ~instance.DeletionTimestamp /\ finalizer \notin instance.Finalizers
             THEN Returning(requeueInterval,
                            ssa(r, instance, [instance EXCEPT !.Finalizers = @ \cup {finalizer}]))
             ELSE handleState(r, instance)

\* the API server: an object with a deletion timestamp and no finalizer is removed
AfterWrite(obj) == IF obj.DeletionTimestamp /\ obj.Finalizers = {} THEN Nil ELSE Ptr(obj)

\* the events kept once the objects are as in objs: those about a stored object
EventsAbout(objs, evs) == { e \in evs : objs[e.name] # Nil }

\* k8sClient.Create of a new RegistryCache
CreateObject ==
    /\ \E n \in ObjectNames :
          /\ objects[n] = Nil
          /\ objects' = [objects EXCEPT ![n] = Ptr(newRegistryCacheStub(n))]
    /\ UNCHANGED <<v, call, cluster, response, webhookReady, events, reconcile, frames>>

\* k8sClient.Delete: the deletion timestamp is set, and the object goes at once if it has no finalizer
DeleteObject ==
    /\ \E n \in ObjectNames :
          /\ objects[n] # Nil
          /\ ~objects[n][1].DeletionTimestamp
          /\ objects' = [objects EXCEPT ![n] = AfterWrite([objects[n][1] EXCEPT !.DeletionTimestamp = TRUE])]
    /\ events' = EventsAbout(objects', events)
    /\ UNCHANGED <<v, call, cluster, response, webhookReady, reconcile, frames>>

\* the webhook server starts serving: StartedChecker passes from now on
WebhookStarts ==
    /\ ~webhookReady
    /\ webhookReady' = TRUE
    /\ UNCHANGED <<v, call, cluster, response, objects, events, reconcile, frames>>

\* the webhook server stops serving
WebhookStops ==
    /\ webhookReady
    /\ webhookReady' = FALSE
    /\ UNCHANGED <<v, call, cluster, response, objects, events, reconcile, frames>>

\* the controller runs Reconcile for the request of object n with a client behaving as c
ReconcileWith(n, c) ==
    /\ reconcile = Nil
    /\ LET r   == [Checker |-> webhookReady, Client |-> c]
           out == Reconcile(r, objects[n])
       IN  /\ objects' = [objects EXCEPT ![n] = IF out.obj = Nil THEN Nil ELSE AfterWrite(out.obj[1])]
           /\ events' = EventsAbout(objects', events \cup out.events)
           /\ reconcile' = Ptr([name |-> n, r |-> r, observed |-> objects[n],
                                result |-> out.result, err |-> out.err])
    /\ UNCHANGED <<v, call, cluster, response, webhookReady, frames>>

ReconcileRequest == \E n \in ObjectNames, c \in ClientOutcomes : ReconcileWith(n, c)

\* Reconcile has returned; the request is requeued after result.RequeueAfter, or at once with an error
ReconcileReturn ==
    /\ reconcile # Nil
    /\ reconcile' = Nil
    /\ UNCHANGED <<v, call, cluster, response, objects, webhookReady, events, frames>>

ReconcilerNext ==
    CreateObject \/ DeleteObject \/ WebhookStarts \/ WebhookStops \/ ReconcileRequest \/ ReconcileReturn

ReconcilerSpec == Init /\ [][ReconcilerNext]_vars

\* A request is requeued after every Reconcile that returns a RequeueAfter or
\* an error, so Reconcile runs again and again for a stored object, and a
\* transport failure of the client does not last for ever.
FairReconcilerSpec ==
    /\ ReconcilerSpec
    /\ WF_vars(ReconcileReturn)
    /\ \A n \in ObjectNames : SF_vars(ReconcileWith(n, "ok"))

\* another client of the API server writes status.state through the status sub-resource
OtherClientWritesStatus ==
    /\ \E n \in ObjectNames, s \in States :
          /\ objects[n] # Nil
          /\ objects[n][1].Status.State # s
          /\ objects' = [objects EXCEPT ![n] = Ptr([objects[n][1] EXCEPT !.Status.State = s])]
    /\ UNCHANGED <<v, call, cluster, response, webhookReady, events, reconcile, frames>>

StatusNext == ReconcilerNext \/ OtherClientWritesStatus

StatusSpec == Init /\ [][StatusNext]_vars

----------------------------------------------------------------------------
(* DefaultDNSValidator: the production DNSValidator, over a net.Resolver.   *)
(* Times are in seconds.                                                    *)

DefaultTimeout == 2

\* the names a resolver knows, and the hosts IsResolvable is called with
LookupNames == {S_a, S_b}
LookupHosts == {<<>>, S_a, S_b, S_a5}

\* what a resolver does with a name it knows: it answers after `latency` with
\* addresses, with no address, with "no such host" or with another error, or
\* it does not answer before the context is done
Answers ==
    { [kind |-> "addrs", latency |-> l] : l \in 0..MaxLatency }
    \cup { [kind |-> k, latency |-> 0] : k \in {"empty", "notFound", "failure", "hangs"} }

Resolvers == [LookupNames -> Answers]

\* net.DefaultResolver: the DNS of the cluster
DefaultResolver == [h \in LookupNames |-> [kind |-> IF h \in ResolvableNames THEN "addrs" ELSE "notFound",
                                           latency |-> 0]]

\* res.LookupHost(ctx, host) with a ctx that is done after timeout: the number
\* of addresses and the error
LookupHost(res, timeout, host) ==
    IF host \notin DOMAIN res
    THEN [addrs |-> 0, err |-> Ptr("no such host")]
    ELSE IF res[host].kind = "hangs" \/ res[host].latency >= timeout
    THEN [addrs |-> 0, err |-> Ptr("context deadline exceeded")]
    ELSE CASE res[host].kind = "addrs" -> [addrs |-> 1, err |-> Nil]
           [] res[host].kind = "empty" -> [addrs |-> 0, err |-> Nil]
           [] res[host].kind = "notFound" -> [addrs |-> 0, err |-> Ptr("no such host")]
           [] OTHER -> [addrs |-> 0, err |-> Ptr("server misbehaving")]

\* the values of the struct: a custom resolver or none, a timeout or zero
DefaultDNSValidators ==
    { [Resolver |-> res, Timeout |-> t] :
        res \in {Nil} \cup { Ptr(f) : f \in Resolvers }, t \in 0..(MaxLatency + 1) }

\* IsResolvable as the earlier iteration of Do read its lookup: an error that
\* is not "no such host" does not count against the host
DefaultDNSValidator_IsResolvable_ErrorTolerated(r, host) ==
    IF host = <<>> THEN FALSE
    ELSE LET res     == IF r.Resolver = Nil THEN DefaultResolver ELSE r.Resolver[1]
             timeout == IF r.Timeout = 0 THEN DefaultTimeout ELSE r.Timeout
             lookup  == LookupHost(res, timeout, host)
         IN  (lookup.err = Nil /\ lookup.addrs > 0)
             \/ (lookup.err # Nil /\ lookup.err # Ptr("no such host"))

DefaultDNSValidator_IsResolvable(r, host) ==
    IF host = <<>> THEN FALSE
    ELSE LET res     == IF r.Resolver = Nil THEN DefaultResolver ELSE r.Resolver[1]
             timeout == IF r.Timeout = 0 THEN DefaultTimeout ELSE r.Timeout
             lookup  == LookupHost(res, timeout, host)
         IN  lookup.err = Nil /\ lookup.addrs > 0

\* the lookups one call of IsResolvable starts: the host and the timeout of each
DefaultDNSValidator_Lookups(r, host) ==
    IF host = <<>> THEN <<>>
    ELSE <<[host |-> host, timeout |-> IF r.Timeout = 0 THEN DefaultTimeout ELSE r.Timeout]>>

\* a DefaultDNSValidator as the Validator sees it through the DNSValidator interface
DNSValidatorOf(r) == Ptr({ h \in LookupHosts : DefaultDNSValidator_IsResolvable(r, h) })

LookupCandidates ==
    { MkConfig("config1", "default", MkSpec(u, rem, Nil, NoExtras)) :
        u \in {S_a, S_b, S_a5}, rem \in {Nil, Ptr(S_httpA), Ptr(S_httpsB5)} }

\* NewValidator(secrets, existing, DefaultDNSValidator{...})
ConstructWithDefaultDNS ==
    /\ v = Nil
    /\ \E r \in DefaultDNSValidators : v' = Ptr(NewValidator(<<>>, <<>>, DNSValidatorOf(r)))
    /\ UNCHANGED <<call, cluster, response, controllerVars, frames>>

\* one call of IsResolvable on a DefaultDNSValidator value
CallIsResolvable ==
    /\ call = Nil
    /\ \E r \in DefaultDNSValidators, host \in LookupHosts :
          call' = Ptr([op |-> "IsResolvable", r |-> r, host |-> host,
                       result |-> DefaultDNSValidator_IsResolvable(r, host),
                       lookups |-> DefaultDNSValidator_Lookups(r, host)])
    /\ UNCHANGED <<v, cluster, response, controllerVars, frames>>

\* Do on a Validator whose dns is the DefaultDNSValidator r
CallDoWithDefaultDNS ==
    /\ v # Nil
    /\ call = Nil
    /\ \E r \in DefaultDNSValidators, newConfig \in LookupCandidates :
          /\ v[1].dns = DNSValidatorOf(r)
          /\ call' = Ptr([op |-> "Do", newConfig |-> newConfig, oldConfig |-> Nil, r |-> r,
                          errs |-> Do(v[1], newConfig), asked |-> Asked(v[1], newConfig)])
    /\ UNCHANGED <<v, cluster, response, controllerVars, frames>>

LookupNext == ConstructWithDefaultDNS \/ CallIsResolvable \/ CallDoWithDefaultDNS \/ Return

LookupSpec == Init /\ [][LookupNext]_vars

----------------------------------------------------------------------------
(* Calls of Do and DoOnUpdate running at the same time: one frame per call  *)
(* with the receiver's copy of the Validator, the arguments, the statement  *)
(* reached and the local allErrs.                                           *)

ConcurrentValidators ==
    { NewValidator(<<>>, <<MkConfig("config2", "default", MkSpec(S_a, Nil, Nil, NoExtras))>>, Ptr({S_b})),
      NewValidator(<<>>, <<>>, Ptr({S_a})) }

ConcurrentCandidates ==
    { MkConfig("config1", "default", MkSpec(S_a, Ptr(S_httpsB5), Ptr("s1"), NoExtras)),
      MkConfig("config1", "default", MkSpec(S_a0, Ptr(S_httpA), Nil, NoExtras)),
      MkConfig("config1", "default", MkSpec(S_b, Nil, Nil, [NoExtras EXCEPT !.GarbageCollection = GC(1)])),
      MkConfig("config1", "default", MkSpec(<<>>, Nil, Nil, NoExtras)) }

NewFrame(op, val, newConfig, oldConfig) ==
    [op |-> op, v |-> val, newConfig |-> newConfig, oldConfig |-> oldConfig, pc |-> "guard", allErrs |-> <<>>]

\* the statement at fr.pc, executed on the frame
step(fr) ==
    CASE fr.pc = "guard" ->
            IF isEmptySpec(fr.newConfig.Spec)
            THEN [fr EXCEPT !.pc = "done", !.allErrs = <<Required(SpecPath, "spec must not be empty")>>]
            ELSE [fr EXCEPT !.pc = "uniqueness"]
      [] fr.pc = "uniqueness" ->
            [fr EXCEPT !.pc = "upstream",
                       !.allErrs = @ \o validateUpstreamUniqueness(fr.newConfig, fr.v.existingConfigs)]
      [] fr.pc = "upstream" ->
            [fr EXCEPT !.pc = "remoteURL", !.allErrs = @ \o validateUpstreamResolvability(fr.newConfig, fr.v.dns)]
      [] fr.pc = "remoteURL" ->
            [fr EXCEPT !.pc = "secret", !.allErrs = @ \o validateRemoteURLResolvability(fr.newConfig, fr.v.dns)]
      [] fr.pc = "secret" ->
            [fr EXCEPT !.pc = "rules", !.allErrs = @ \o validateSecretReferenceName(fr.newConfig, fr.v.secrets)]
      [] fr.pc = "rules" ->
            [fr EXCEPT !.pc = "done",
                       !.allErrs = @ \o transformFieldErrors(
                            IF fr.op = "Do"
                            THEN ValidateRegistryConfig(toExtensionConfig(fr.newConfig), SpecPath)
                            ELSE ValidateRegistryConfigUpdate(toExtensionConfig(fr.oldConfig[1]),
                                                              toExtensionConfig(fr.newConfig), SpecPath))]
      [] OTHER -> fr

\* the frames after goroutine g's statement when allErrs is one list that
\* every running call appends to
RunStatement_SharedErrorList(fs, g) ==
    LET mine == step(fs[g][1])
    IN  [h \in DOMAIN fs |->
            IF h = g THEN Ptr(mine)
            ELSE IF fs[h] # Nil /\ fs[h][1].pc # "done" THEN Ptr([fs[h][1] EXCEPT !.allErrs = mine.allErrs])
            ELSE fs[h]]

\* the frames after goroutine g executes its next statement: allErrs and the
\* errors of the checks are local to the call
RunStatement(fs, g) == [fs EXCEPT ![g] = Ptr(step(fs[g][1]))]

\* the webhook server starts a call on a free goroutine
GoCall ==
    /\ \E g \in Goroutines, val \in ConcurrentValidators, newConfig \in ConcurrentCandidates :
          /\ frames[g] = Nil
          /\ \/ frames' = [frames EXCEPT ![g] = Ptr(NewFrame("Do", val, newConfig, Nil))]
             \/ \E oldConfig \in OldConfigs :
                   frames' = [frames EXCEPT ![g] = Ptr(NewFrame("DoOnUpdate", val, newConfig, Ptr(oldConfig)))]
    /\ UNCHANGED <<v, call, cluster, response, controllerVars>>

\* a running call executes its next statement
RunCall ==
    /\ \E g \in Goroutines :
          /\ frames[g] # Nil
          /\ frames[g][1].pc # "done"
          /\ frames' = RunStatement(frames, g)
    /\ UNCHANGED <<v, call, cluster, response, controllerVars>>

\* a finished call returns its allErrs and its frame is gone
ReturnCall ==
    /\ \E g \in Goroutines :
          /\ frames[g] # Nil
          /\ frames[g][1].pc = "done"
          /\ frames' = [frames EXCEPT ![g] = Nil]
    /\ UNCHANGED <<v, call, cluster, response, controllerVars>>

ConcurrentNext == GoCall \/ RunCall \/ ReturnCall

ConcurrentSpec == Init /\ [][ConcurrentNext]_vars

----------------------------------------------------------------------------
(* Reading a finished call *)

Called == call # Nil
TheCall == call[1]
NewCfg == call[1].newConfig
Errs == call[1].errs
Existing == v[1].existingConfigs
Secrets == v[1].secrets
Dns == v[1].dns

UpstreamPath == <<"spec", "upstream">>
RemoteURLPath == <<"spec", "remoteURL">>
SecretRefPath == <<"spec", "secretReferenceName">>

ErrsOn(errs, path) == { i \in 1..Len(errs) : errs[i].Field = path }
ErrsOfType(errs, type) == { i \in 1..Len(errs) : errs[i].Type = type }
ErrsWith(errs, type, path, detail) ==
    { i \in 1..Len(errs) : errs[i].Type = type /\ errs[i].Field = path /\ errs[i].Detail = detail }

\* the candidate's spec has no field set, spelled out field by field
AllUnset(c) ==
    /\ c.Spec.Upstream = <<>>
    /\ c.Spec.RemoteURL = <<>>
    /\ c.Spec.Volume = <<>>
    /\ c.Spec.GarbageCollection = <<>>
    /\ c.Spec.SecretReferenceName = <<>>
    /\ c.Spec.Proxy = <<>>
    /\ c.Spec.HTTP = <<>>

SameIdentity(x, y) == x.Name = y.Name /\ x.Namespace = y.Namespace

\* positions of the existing configurations of another identity with the candidate's upstream
Colliding(existing, c) ==
    { i \in 1..Len(existing) : ~SameIdentity(existing[i], c) /\ existing[i].Spec.Upstream = c.Spec.Upstream }

\* C1: an empty candidate spec yields, from Do and from DoOnUpdate, exactly one
\* error, Required on `spec`, whatever the lister, the secrets, the resolver
\* and the previous object hold.
C1_EmptySpecOnlyRequired ==
    (Called /\ AllUnset(NewCfg)) =>
        /\ Len(Errs) = 1
        /\ Errs[1].Type = "Required"
        /\ Errs[1].Field = <<"spec">>

C1_Witness ==
    /\ Called /\ AllUnset(NewCfg)
    /\ TheCall.op = "DoOnUpdate"
    /\ Len(Existing) > 0 /\ Existing[1].Spec.Upstream = <<>>
    /\ Len(Errs) = 1

\* C2: a candidate with a non-empty upstream that some existing configuration of
\* another name or namespace also has gets a Duplicate error on `spec.upstream`
\* whose value is that upstream.
C2_DuplicateReported ==
    (Called /\ NewCfg.Spec.Upstream # <<>> /\ Colliding(Existing, NewCfg) # {}) =>
        \E i \in ErrsWith(Errs, "Duplicate", UpstreamPath, "") : Errs[i].BadValue = NewCfg.Spec.Upstream

C2_Witness ==
    /\ Called /\ NewCfg.Spec.Upstream = S_a
    /\ \E i \in Colliding(Existing, NewCfg) : Existing[i].Name = NewCfg.Name
    /\ ErrsOfType(Errs, "Duplicate") # {}

\* C3: when every existing configuration with the candidate's upstream is the
\* candidate's own stored object, no Duplicate error is returned.
C3_NoSelfCollision ==
    (Called /\ Colliding(Existing, NewCfg) = {}) => ErrsOfType(Errs, "Duplicate") = {}

C3_Witness ==
    /\ Called /\ TheCall.op = "DoOnUpdate"
    /\ \E i \in 1..Len(Existing) :
          SameIdentity(Existing[i], NewCfg) /\ Existing[i].Spec.Upstream = NewCfg.Spec.Upstream
    /\ ErrsOfType(Errs, "Duplicate") = {}

DetailUpstreamDNS == "upstream is not DNS resolvable"
DetailRemoteDNS == "remoteURL is not DNS resolvable"
DetailNoSecret == "secret does not exist"

\* the host of host[:port]: the part before the first ':'
UpstreamHost(u) == IF IndexOf(u, ":") = 0 THEN u ELSE SubSeq(u, 1, IndexOf(u, ":") - 1)

\* C5: with a DNS capability, a non-empty upstream whose host the resolver does
\* not resolve gets exactly one Invalid error "upstream is not DNS resolvable"
\* on `spec.upstream` with the upstream as provided as value, and an upstream
\* whose host the resolver resolves gets no error with that detail.
C5_UpstreamHostResolvability ==
    (Called /\ ~AllUnset(NewCfg) /\ NewCfg.Spec.Upstream # <<>> /\ Dns # Nil) =>
        LET found == ErrsWith(Errs, "Invalid", UpstreamPath, DetailUpstreamDNS)
        IN  IF UpstreamHost(NewCfg.Spec.Upstream) \in Dns[1]
            THEN found = {}
            ELSE Cardinality(found) = 1 /\ \A i \in found : Errs[i].BadValue = NewCfg.Spec.Upstream

\* the host of scheme://host[:port][/path]: what follows "//" up to the next ':' or '/'
RECURSIVE UpTo(_, _)
UpTo(s, stops) == IF s = <<>> \/ s[1] \in stops THEN <<>> ELSE <<s[1]>> \o UpTo(Tail(s), stops)

RECURSIVE AfterSlashes(_)
AfterSlashes(s) ==
    IF Len(s) < 2 THEN <<>>
    ELSE IF s[1] = "/" /\ s[2] = "/" THEN Tail2(s, 3)
    ELSE AfterSlashes(Tail(s))

URLHost(u) == UpTo(AfterSlashes(u), {":", "/"})

RemoteURLChecked(c) ==
    /\ c.Spec.RemoteURL # <<>>
    /\ urlParse(c.Spec.RemoteURL[1]).ok
    /\ Hostname(urlParse(c.Spec.RemoteURL[1]).Host) # <<>>

\* C6: a remoteURL that parses and has a hostname makes the call ask the
\* resolver about that hostname, without scheme and port; the answer false
\* gives an Invalid error "remoteURL is not DNS resolvable" on `spec.remoteURL`,
\* the answer true gives no such error.
C6_RemoteURLResolvability ==
    (Called /\ RemoteURLChecked(NewCfg) /\ Dns # Nil) =>
        LET host  == URLHost(NewCfg.Spec.RemoteURL[1])
            found == ErrsWith(Errs, "Invalid", RemoteURLPath, DetailRemoteDNS)
        IN  /\ \E i \in 1..Len(TheCall.asked) :
                  TheCall.asked[i].check = "remoteURL" /\ TheCall.asked[i].host = host
            /\ (host \in Dns[1]) <=> (found = {})

C6_Witness ==
    /\ Called /\ Dns # Nil
    /\ NewCfg.Spec.RemoteURL = Ptr(S_httpsB5)
    /\ NewCfg.Spec.Upstream = S_a
    /\ S_b \in Dns[1]
    /\ ErrsOn(Errs, RemoteURLPath) = {}

\* a secret with the name exists in the namespace
SecretsNamed(secrets, name, namespace) ==
    { i \in 1..Len(secrets) : secrets[i].Name = name /\ secrets[i].Namespace = namespace }

RefersTo(c) == c.Spec.SecretReferenceName[1]

\* C7: a secret reference naming no secret of the candidate's own namespace
\* yields exactly one error on `spec.secretReferenceName`: Invalid, the
\* referenced name as value, detail "secret does not exist".
C7_MissingSecret ==
    (Called /\ NewCfg.Spec.SecretReferenceName # <<>>
            /\ SecretsNamed(Secrets, RefersTo(NewCfg), NewCfg.Namespace) = {}) =>
        /\ Cardinality(ErrsOn(Errs, SecretRefPath)) = 1
        /\ \A i \in ErrsOn(Errs, SecretRefPath) :
              /\ Errs[i].Type = "Invalid"
              /\ Errs[i].BadValue = RefersTo(NewCfg)
              /\ Errs[i].Detail = DetailNoSecret

C7_Witness ==
    /\ Called /\ NewCfg.Spec.SecretReferenceName # <<>>
    /\ \E i \in 1..Len(Secrets) : Secrets[i].Name = RefersTo(NewCfg) /\ Secrets[i].Namespace # NewCfg.Namespace
    /\ ErrsWith(Errs, "Invalid", SecretRefPath, DetailNoSecret) # {}

\* the details the structure of a secret calls for
Defects(secret) ==
    (IF Cardinality(secret.Data) # 2 THEN {DetailTwoEntries} ELSE {})
    \cup (IF "username" \notin secret.Data THEN {DetailNoUsername} ELSE {})
    \cup (IF "password" \notin secret.Data THEN {DetailNoPassword} ELSE {})
    \cup (IF secret.Immutable # <<TRUE>> THEN {DetailMutable} ELSE {})

\* C8: when the referenced secret exists in the candidate's namespace, each of
\* its structural defects (entry count, missing username, missing password,
\* not immutable) is reported by the same call as one Invalid error of its own
\* on `spec.secretReferenceName`, and nothing else is reported there.
C8_AllSecretDefects ==
    (Called /\ NewCfg.Spec.SecretReferenceName # <<>>) =>
        \A k \in SecretsNamed(Secrets, RefersTo(NewCfg), NewCfg.Namespace) :
            /\ \A d \in Defects(Secrets[k]) :
                  Cardinality(ErrsWith(Errs, "Invalid", SecretRefPath, d)) = 1
            /\ Cardinality(ErrsOn(Errs, SecretRefPath)) = Cardinality(Defects(Secrets[k]))

C8_Witness ==
    /\ Called /\ NewCfg.Spec.SecretReferenceName # <<>>
    /\ \E k \in SecretsNamed(Secrets, RefersTo(NewCfg), NewCfg.Namespace) :
          Secrets[k].Immutable = <<TRUE>> /\ Secrets[k].Data = {"invalid-key"}
    /\ Cardinality(ErrsOn(Errs, SecretRefPath)) = 3
    /\ ErrsWith(Errs, "Invalid", SecretRefPath, DetailTwoEntries) # {}
    /\ ErrsWith(Errs, "Invalid", SecretRefPath, DetailNoUsername) # {}
    /\ ErrsWith(Errs, "Invalid", SecretRefPath, DetailNoPassword) # {}

ValidSecret(secret) == secret.Immutable = <<TRUE>> /\ secret.Data = {"username", "password"}

\* C9: with a secret reference set, there is no error on
\* `spec.secretReferenceName` exactly when the candidate's namespace holds a
\* secret of that name that is immutable and has the two entries username and
\* password and no other; such a secret that is not immutable yields exactly
\* one error there, Invalid with "should be immutable".
C9_SecretAcceptedIff ==
    (Called /\ NewCfg.Spec.SecretReferenceName # <<>>) =>
        /\ (ErrsOn(Errs, SecretRefPath) = {})
              <=> (\E k \in SecretsNamed(Secrets, RefersTo(NewCfg), NewCfg.Namespace) : ValidSecret(Secrets[k]))
        /\ \A k \in SecretsNamed(Secrets, RefersTo(NewCfg), NewCfg.Namespace) :
              (Secrets[k].Data = {"username", "password"} /\ Secrets[k].Immutable # <<TRUE>>) =>
                  /\ Cardinality(ErrsOn(Errs, SecretRefPath)) = 1
                  /\ \A i \in ErrsOn(Errs, SecretRefPath) :
                        Errs[i].Type = "Invalid" /\ Errs[i].Detail = DetailMutable

C9_Witness ==
    /\ Called /\ NewCfg.Spec.SecretReferenceName # <<>>
    /\ \E k \in SecretsNamed(Secrets, RefersTo(NewCfg), NewCfg.Namespace) :
          Secrets[k].Data = {"username", "password"} /\ Secrets[k].Immutable = <<FALSE>>
    /\ Cardinality(ErrsOn(Errs, SecretRefPath)) = 1

\* C10: for a non-empty spec Do returns the errors of every check together:
\* the Duplicate of a colliding upstream, the Invalid of an upstream the
\* resolver does not know, the Invalid of a remoteURL host the resolver does
\* not know, the Invalid of a missing secret and the domain-rule errors (port
\* range, URL scheme) each appear whatever the other checks report.
C10_ErrorsAccumulate ==
    (Called /\ TheCall.op = "Do" /\ ~AllUnset(NewCfg)) =>
        /\ Colliding(Existing, NewCfg) # {} => ErrsWith(Errs, "Duplicate", UpstreamPath, "") # {}
        /\ (Dns # Nil /\ NewCfg.Spec.Upstream # <<>> /\ NewCfg.Spec.Upstream \notin Dns[1])
              => ErrsWith(Errs, "Invalid", UpstreamPath, DetailUpstreamDNS) # {}
        /\ (Dns # Nil /\ RemoteURLChecked(NewCfg) /\ URLHost(NewCfg.Spec.RemoteURL[1]) \notin Dns[1])
              => ErrsWith(Errs, "Invalid", RemoteURLPath, DetailRemoteDNS) # {}
        /\ (NewCfg.Spec.SecretReferenceName # <<>>
              /\ SecretsNamed(Secrets, RefersTo(NewCfg), NewCfg.Namespace) = {})
              => ErrsWith(Errs, "Invalid", SecretRefPath, DetailNoSecret) # {}
        /\ NewCfg.Spec.Upstream = S_a0 => ErrsWith(Errs, "Invalid", UpstreamPath, DetailPort) # {}
        /\ NewCfg.Spec.RemoteURL = Ptr(S_a) => ErrsWith(Errs, "Invalid", RemoteURLPath, DetailScheme) # {}

C10_Witness ==
    /\ Called /\ TheCall.op = "Do"
    /\ Colliding(Existing, NewCfg) # {}
    /\ Dns # Nil /\ NewCfg.Spec.Upstream = S_b /\ S_b \notin Dns[1]
    /\ NewCfg.Spec.SecretReferenceName # <<>>
    /\ SecretsNamed(Secrets, RefersTo(NewCfg), NewCfg.Namespace) = {}
    /\ ErrsWith(Errs, "Duplicate", UpstreamPath, "") # {}
    /\ ErrsWith(Errs, "Invalid", UpstreamPath, DetailUpstreamDNS) # {}
    /\ ErrsWith(Errs, "Invalid", SecretRefPath, DetailNoSecret) # {}
    /\ Len(Errs) = 3

Responded == response # Nil
Resp == response[1]

\* the stored objects of another namespace with the request's upstream
StoredElsewhere(stored, obj) ==
    { i \in 1..Len(stored) : stored[i].Namespace # obj.Namespace /\ stored[i].Spec.Upstream = obj.Spec.Upstream }

----------------------------------------------------------------------------
(* Updates and domain rules *)

OldCfg == call[1].oldConfig[1]

VolumeSizePath == <<"spec", "volume", "size">>
StorageClassPath == <<"spec", "volume", "storageClassName">>
TTLPath == <<"spec", "garbageCollection", "ttl">>

\* C13: an update of a configuration whose previous ttl is non-zero gets no
\* "garbage collection cannot be enabled" error on `spec.garbageCollection.ttl`,
\* whether the candidate keeps the ttl, sets another non-zero ttl or sets zero.
C13_NoErrorWhenAlreadyEnabled ==
    (Called /\ TheCall.op = "DoOnUpdate"
            /\ OldCfg.Spec.GarbageCollection # <<>> /\ OldCfg.Spec.GarbageCollection[1].TTL # 0
            /\ NewCfg.Spec.GarbageCollection # <<>>) =>
        ErrsWith(Errs, "Invalid", TTLPath, DetailGC) = {}

C13_Witness ==
    /\ Called /\ TheCall.op = "DoOnUpdate"
    /\ OldCfg.Spec.GarbageCollection = <<[TTL |-> 1]>>
    /\ NewCfg.Spec.GarbageCollection = <<[TTL |-> 0]>>
    /\ NewCfg.Spec.Upstream = OldCfg.Spec.Upstream
    /\ ErrsOn(Errs, TTLPath) = {}

\* C14: DoOnUpdate of a configuration against itself as previous returns no
\* error whenever Do of that configuration, with the same validator, returns
\* none, and it never returns an immutability or garbage-collection-transition
\* error.
C14_RoundTrip ==
    (Called /\ TheCall.op = "DoOnUpdate" /\ OldCfg = NewCfg) =>
        /\ Do(v[1], NewCfg) = <<>> => Errs = <<>>
        /\ \A i \in 1..Len(Errs) : Errs[i].Detail \notin {DetailImmutable, DetailGC}

C14_Witness ==
    /\ Called /\ TheCall.op = "DoOnUpdate" /\ OldCfg = NewCfg
    /\ NewCfg.Spec.Upstream = S_a
    /\ NewCfg.Spec.Volume = <<[Size |-> <<20>>, StorageClassName |-> <<"standard">>]>>
    /\ NewCfg.Spec.GarbageCollection = <<[TTL |-> 1]>>
    /\ Len(Existing) > 0
    /\ Errs = <<>>

\* what the domain-rule checker reports for the call, before the paths are rewritten
Reported ==
    IF TheCall.op = "Do"
    THEN ValidateRegistryConfig(toExtensionConfig(NewCfg), <<"spec">>)
    ELSE ValidateRegistryConfigUpdate(toExtensionConfig(OldCfg), toExtensionConfig(NewCfg), <<"spec">>)

\* C16: every error Do and DoOnUpdate return has a path that starts with
\* `spec` and has no segment `caches[0]`, and every error the domain-rule
\* checker reports on spec.caches[0].<rest> is returned on spec.<rest>.
C16_FlatPaths ==
    Called =>
        /\ \A i \in 1..Len(Errs) :
              /\ Len(Errs[i].Field) >= 1 /\ Errs[i].Field[1] = "spec"
              /\ \A k \in 1..Len(Errs[i].Field) : Errs[i].Field[k] # "caches[0]"
        /\ ~AllUnset(NewCfg) =>
              \A j \in 1..Len(Reported) :
                  (Len(Reported[j].Field) >= 2 /\ Reported[j].Field[2] = "caches[0]") =>
                      \E i \in 1..Len(Errs) :
                          /\ Errs[i].Field = <<"spec">> \o SubSeq(Reported[j].Field, 3, Len(Reported[j].Field))
                          /\ Errs[i].Type = Reported[j].Type
                          /\ Errs[i].Detail = Reported[j].Detail
                          /\ Errs[i].BadValue = Reported[j].BadValue

C16_Witness ==
    /\ Called /\ TheCall.op = "DoOnUpdate"
    /\ ErrsWith(Errs, "Invalid", VolumeSizePath, DetailImmutable) # {}
    /\ ErrsWith(Errs, "Invalid", StorageClassPath, DetailImmutable) # {}
    /\ ErrsWith(Errs, "Invalid", TTLPath, DetailGC) # {}

\* upstreams whose port lies outside and inside 1..65535
PortOutOfRange == { <<"a", ":", "0">>, <<"a", ":", "6", "5", "5", "3", "6">>, <<"a", ":", "7", "7", "7", "7", "7">> }
PortInRange == { <<"a", ":", "1">>, <<"a", ":", "5">>, <<"a", ":", "6", "5", "5", "3", "5">> }

\* C17: Do of a candidate whose upstream has a port outside 1..65535 returns an
\* Invalid error on `spec.upstream` with the upstream as value and the detail
\* "valid port must be in the range [1, 65535]"; an upstream with a port inside
\* the range gets no error with that detail.
C17_PortRange ==
    (Called /\ TheCall.op = "Do") =>
        /\ NewCfg.Spec.Upstream \in PortOutOfRange =>
              \E i \in ErrsWith(Errs, "Invalid", UpstreamPath, DetailPort) :
                  Errs[i].BadValue = NewCfg.Spec.Upstream
        /\ NewCfg.Spec.Upstream \in PortInRange =>
              \A i \in 1..Len(Errs) : Errs[i].Detail # DetailPort

C17_Witness ==
    /\ Called /\ TheCall.op = "Do"
    /\ NewCfg.Spec.Upstream = <<"a", ":", "7", "7", "7", "7", "7">>
    /\ Cardinality(ErrsWith(Errs, "Invalid", UpstreamPath, DetailPort)) = 1

\* a candidate that breaks no rule: a well-formed upstream no other
\* configuration has, no remoteURL or a well-formed one, every host resolvable,
\* no secret reference or a valid secret, no or well-formed optional settings
BreaksNoRule(c, existing, secrets, dns) ==
    /\ c.Spec.Upstream \in ({<<"a">>, <<"b">>} \cup PortInRange)
    /\ Colliding(existing, c) = {}
    /\ c.Spec.RemoteURL # <<>> =>
          /\ c.Spec.RemoteURL[1] \in { <<"h", "t", "t", "p", ":", "/", "/", "a">>,
                                       <<"h", "t", "t", "p", "s", ":", "/", "/", "b", ":", "5">> }
          /\ dns # <<>> => URLHost(c.Spec.RemoteURL[1]) \in dns[1]
    /\ dns # <<>> => UpstreamHost(c.Spec.Upstream) \in dns[1]
    /\ c.Spec.SecretReferenceName # <<>> =>
          \E k \in SecretsNamed(secrets, RefersTo(c), c.Namespace) : ValidSecret(secrets[k])
    /\ c.Spec.Volume # <<>> =>
          /\ c.Spec.Volume[1].Size # <<>> => c.Spec.Volume[1].Size[1] > 0
          /\ c.Spec.Volume[1].StorageClassName # <<>> =>
                c.Spec.Volume[1].StorageClassName[1] \in {"standard", "nonstandard"}
    /\ c.Spec.GarbageCollection # <<>> => c.Spec.GarbageCollection[1].TTL >= 0
    /\ c.Spec.Proxy # <<>> =>
          /\ c.Spec.Proxy[1].HTTPProxy \in {<<>>, <<<<"h", "t", "t", "p", ":", "/", "/", "p">>>>}
          /\ c.Spec.Proxy[1].HTTPSProxy \in {<<>>, <<<<"h", "t", "t", "p", ":", "/", "/", "p">>>>}

\* C18: Do returns an empty error list for every candidate that breaks no rule.
C18_NoFalsePositives ==
    (Called /\ TheCall.op = "Do" /\ BreaksNoRule(NewCfg, Existing, Secrets, Dns)) => Errs = <<>>

\* the stored object an update request replaces
Replaced == Resp.before[CHOOSE k \in StoredAt(Resp.before, Resp.obj) : TRUE]

\* what the validator of the request returns
Returned ==
    IF Resp.op = "CREATE"
    THEN Do(ValidatorForRequest(Resp.before, Resp.obj), Resp.obj)
    ELSE DoOnUpdate(ValidatorForRequest(Resp.before, Resp.obj), Resp.obj, Replaced)

C20_DeleteAlwaysAllowed ==
    (Responded /\ Resp.op = "DELETE") =>
        /\ Resp.allowed
        /\ Resp.errs = <<>>
        /\ Resp.warnings = <<>>
        /\ StoredAt(cluster, Resp.obj) = {}

C20_Witness ==
    /\ Responded /\ Resp.op = "DELETE"
    /\ Len(Resp.before) = 2
    /\ Resp.obj.Spec.SecretReferenceName # <<>>
    /\ Resp.allowed
    /\ Len(cluster) = 1

----------------------------------------------------------------------------
(* The resolver questions and the order of the result *)

AskedAbout(check) == { i \in 1..Len(TheCall.asked) : TheCall.asked[i].check = check }

\* C24: for an upstream host:port the resolver is asked, for the upstream
\* check, about host: the upstream without its `:port` suffix, never about the
\* string host:port.
C24_PortStripped ==
    (Called /\ ~AllUnset(NewCfg) /\ NewCfg.Spec.Upstream # <<>> /\ Dns # Nil) =>
        /\ AskedAbout("upstream") # {}
        /\ \A i \in AskedAbout("upstream") : TheCall.asked[i].host = UpstreamHost(NewCfg.Spec.Upstream)

DetailParseRemoteURL == "failed to parse remoteURL"

\* C25: a remoteURL that is set and does not parse as a URL gives an Invalid
\* error with detail "failed to parse remoteURL", and the resolver is not asked
\* about a remoteURL host in that call.
C25_UnparsableRemoteURL ==
    (Called /\ ~AllUnset(NewCfg) /\ NewCfg.Spec.RemoteURL # <<>> /\ ~urlParse(NewCfg.Spec.RemoteURL[1]).ok) =>
        /\ \E i \in 1..Len(Errs) : Errs[i].Type = "Invalid" /\ Errs[i].Detail = DetailParseRemoteURL
        /\ AskedAbout("remoteURL") = {}

\* C26: the result of Do and of DoOnUpdate holds at most one Duplicate error,
\* however many existing configurations of another identity share the
\* candidate's upstream.
C26_AtMostOneDuplicate ==
    Called => Cardinality(ErrsOfType(Errs, "Duplicate")) <= 1

C26_Witness ==
    /\ Called
    /\ Cardinality(Colliding(Existing, NewCfg)) >= 2
    /\ Cardinality(ErrsOfType(Errs, "Duplicate")) = 1

\* the validation step an error of the result belongs to: 1 the domain rules,
\* 2 uniqueness, 3 upstream DNS, 4 remoteURL DNS, 5 the secret reference
StepOf(e) ==
    IF e.Type = "Duplicate" THEN 2
    ELSE IF e.Field = UpstreamPath /\ e.Detail = DetailUpstreamDNS THEN 3
    ELSE IF e.Field = RemoteURLPath /\ e.Detail = DetailRemoteDNS THEN 4
    ELSE IF e.Field = SecretRefPath THEN 5
    ELSE 1

\* C28: the errors of one call appear in validation-step order: domain-rule
\* errors first, then the Duplicate error, then the upstream DNS error, then
\* the remoteURL DNS error, then the secret-reference errors.
C28_StepOrder ==
    (Called /\ ~AllUnset(NewCfg)) =>
        \A i, j \in 1..Len(Errs) : i < j => StepOf(Errs[i]) <= StepOf(Errs[j])

----------------------------------------------------------------------------
(* The reconciler's lifecycle *)

\* reading a Reconcile call
Stored(n) == objects[n] # Nil
Obj(n) == objects[n][1]
ReconcileStep(n) == reconcile = Nil /\ reconcile' # Nil /\ reconcile'[1].name = n
Emitted(n, state) ==
    Event(Obj(n), "Normal", "StatusUpdated", <<"updating state to", state>>) \in events

\* C22: a new RegistryCache that is not deleted first gets the finalizer, then
\* status.State Processing, and with a passing health check it becomes Ready:
\* no status is set on an object without the finalizer, the first state set is
\* Processing, Ready is never reached before Processing was set, and as long
\* as the object is not deleted and the check passes Ready is reached.
C22_CreationLifecycle ==
    /\ [](\A n \in ObjectNames :
            (Stored(n) /\ Obj(n).Status.State # "") => finalizer \in Obj(n).Finalizers)
    /\ [][\A n \in ObjectNames :
            (Stored(n) /\ ~Obj(n).DeletionTimestamp /\ Obj(n).Status.State = "" /\ objects'[n] # Nil
               /\ objects'[n][1].Status.State # "") =>
                  /\ finalizer \in Obj(n).Finalizers
                  /\ objects'[n][1].Status.State \in {StateProcessing, StateDeleting}]_vars
    /\ [](\A n \in ObjectNames :
            (Stored(n) /\ Obj(n).Status.State = StateReady) => Emitted(n, StateProcessing))
    /\ \A n \in ObjectNames :
          Stored(n) ~> (~Stored(n) \/ Obj(n).DeletionTimestamp \/ ~webhookReady
                          \/ Obj(n).Status.State = StateReady)

C22_Witness ==
    /\ Stored("test-resource")
    /\ ~Obj("test-resource").DeletionTimestamp
    /\ finalizer \in Obj("test-resource").Finalizers
    /\ Obj("test-resource").Status.State = StateReady
    /\ Emitted("test-resource", StateProcessing)
    /\ Emitted("test-resource", StateReady)

\* C23: for an object with a deletion timestamp a reconcile that returns no
\* error leaves the state Deleting, whatever it was; the state never leaves
\* Deleting; the finalizer goes only in a reconcile that reads state Deleting;
\* and an object with a deletion timestamp eventually disappears.
C23_DeletionLifecycle ==
    /\ [][\A n \in ObjectNames :
            (ReconcileStep(n) /\ Stored(n) /\ Obj(n).DeletionTimestamp /\ reconcile'[1].err = Nil) =>
                (objects'[n] = Nil \/ objects'[n][1].Status.State = StateDeleting)]_vars
    /\ [][\A n \in ObjectNames :
            (Stored(n) /\ Obj(n).Status.State = StateDeleting) =>
                (objects'[n] = Nil \/ objects'[n][1].Status.State = StateDeleting)]_vars
    /\ [][\A n \in ObjectNames :
            (Stored(n) /\ finalizer \in Obj(n).Finalizers
               /\ (objects'[n] = Nil \/ finalizer \notin objects'[n][1].Finalizers)) =>
                (ReconcileStep(n) /\ Obj(n).Status.State = StateDeleting)]_vars
    /\ \A n \in ObjectNames : (Stored(n) /\ Obj(n).DeletionTimestamp) ~> ~Stored(n)

C23_Witness ==
    /\ reconcile # Nil
    /\ reconcile[1].observed # Nil
    /\ reconcile[1].observed[1].DeletionTimestamp
    /\ reconcile[1].observed[1].Status.State = StateDeleting
    /\ reconcile[1].err = Nil
    /\ finalizer \in reconcile[1].observed[1].Finalizers
    /\ ~Stored(reconcile[1].name)

\* C30: for an object that is not being deleted and has the finalizer, a
\* reconcile sets Ready only when the health check passes in it; with a
\* failing check Processing and Error stay and Ready and Warning become Error;
\* with a passing check Ready and Warning stay.
C30_HealthTransitions ==
    [][\A n \in ObjectNames :
         (ReconcileStep(n) /\ Stored(n) /\ ~Obj(n).DeletionTimestamp /\ finalizer \in Obj(n).Finalizers) =>
             LET before == Obj(n).Status.State
                 after  == objects'[n][1].Status.State
                 passes == webhookReady
             IN  /\ objects'[n] # Nil
                 /\ (after = StateReady /\ before # StateReady) => passes
                 /\ (~passes /\ before \in {StateProcessing, StateError}) => after = before
                 /\ (~passes /\ before \in {StateReady, StateWarning} /\ reconcile'[1].err = Nil) =>
                        after = StateError
                 /\ (passes /\ before \in {StateReady, StateWarning}) => after = before]_vars

C30_Witness ==
    /\ reconcile # Nil
    /\ reconcile[1].observed # Nil
    /\ ~reconcile[1].observed[1].DeletionTimestamp
    /\ finalizer \in reconcile[1].observed[1].Finalizers
    /\ reconcile[1].observed[1].Status.State = StateWarning
    /\ ~reconcile[1].r.Checker
    /\ reconcile[1].err = Nil
    /\ Stored(reconcile[1].name)
    /\ Obj(reconcile[1].name).Status.State = StateError

----------------------------------------------------------------------------
(* Failing collaborators, the production resolver, concurrent calls *)

\* C21: a create or update request during which a List call of the client
\* fails with a transport error is answered with an InternalError field
\* error, on `spec.secretReferenceName` when the list of the secrets failed.
C21_InternalErrorOnClientFailure ==
    (Responded /\ Resp.op \in {"CREATE", "UPDATE"} /\ Resp.client # "ok") =>
        /\ ~Resp.allowed
        /\ \E i \in 1..Len(Resp.errs) :
              /\ Resp.errs[i].Type = "InternalError"
              /\ (Resp.client = "listSecretsFails" => Resp.errs[i].Field = SecretRefPath)

\* the lookup r makes for host ends before the timeout (2 s when none is
\* set), without error and with an address
LookupSucceeds(r, host) ==
    LET res     == IF r.Resolver = <<>> THEN DefaultResolver ELSE r.Resolver[1]
        timeout == IF r.Timeout = 0 THEN 2 ELSE r.Timeout
    IN  /\ host \in DOMAIN res
        /\ res[host].kind = "addrs"
        /\ res[host].latency < timeout

\* C27: IsResolvable of the production implementation returns, false for the
\* empty host without a lookup, and else true exactly when its one lookup
\* ends in time without error and with an address; a host of a Do call whose
\* lookup fails or times out gets the Invalid error of its check.
C27_FailedLookupNotResolvable ==
    /\ (call # <<>> /\ call[1].op = "IsResolvable") =>
          /\ call[1].result \in BOOLEAN
          /\ (call[1].host = <<>>) => (call[1].result = FALSE /\ call[1].lookups = <<>>)
          /\ (call[1].host # <<>>) =>
                /\ Len(call[1].lookups) = 1
                /\ call[1].lookups[1].host = call[1].host
                /\ call[1].result <=> LookupSucceeds(call[1].r, call[1].host)
    /\ (call # <<>> /\ call[1].op = "Do") =>
          \A i \in 1..Len(call[1].asked) :
              LET q == call[1].asked[i]
              IN  ~LookupSucceeds(call[1].r, q.host) =>
                     IF q.check = "upstream"
                     THEN ErrsWith(call[1].errs, "Invalid", UpstreamPath, DetailUpstreamDNS) # {}
                     ELSE ErrsWith(call[1].errs, "Invalid", RemoteURLPath, DetailRemoteDNS) # {}

C27_Witness ==
    /\ call # <<>> /\ call[1].op = "Do"
    /\ call[1].newConfig.Spec.Upstream = S_a
    /\ call[1].r.Timeout = 0
    /\ call[1].r.Resolver # <<>>
    /\ call[1].r.Resolver[1][S_a] = [kind |-> "addrs", latency |-> 2]
    /\ ErrsWith(call[1].errs, "Invalid", UpstreamPath, DetailUpstreamDNS) # {}

\* the result of the call of a frame when it runs alone
RunAlone(fr) ==
    IF fr.op = "Do" THEN Do(fr.v, fr.newConfig) ELSE DoOnUpdate(fr.v, fr.newConfig, fr.oldConfig[1])

\* C29: however the statements of two calls interleave, a call that is done
\* holds the errors it returns when it runs alone, a statement of one call
\* leaves the frame of the other as it was, and no statement changes the
\* Validator or the arguments of a call.
C29_CallsIndependent ==
    /\ [](\A g \in Goroutines :
            (frames[g] # <<>> /\ frames[g][1].pc = "done") => frames[g][1].allErrs = RunAlone(frames[g][1]))
    /\ [][\A g, h \in Goroutines :
            (g # h /\ frames'[g] # frames[g]) => frames'[h] = frames[h]]_vars
    /\ [][\A g \in Goroutines :
            (frames[g] # <<>> /\ frames'[g] # <<>>) =>
                /\ frames'[g][1].v = frames[g][1].v
                /\ frames'[g][1].newConfig = frames[g][1].newConfig
                /\ frames'[g][1].oldConfig = frames[g][1].oldConfig]_vars

C29_Witness ==
    /\ frames["g1"] # <<>> /\ frames["g2"] # <<>>
    /\ frames["g1"][1].pc = "done"
    /\ Len(frames["g1"][1].allErrs) >= 2
    /\ frames["g2"][1].pc = "secret"
    /\ frames["g2"][1].allErrs # <<>>
    /\ frames["g2"][1].newConfig # frames["g1"][1].newConfig
    /\ frames["g2"][1].v # frames["g1"][1].v

====
